---- MODULE Spec2Model ----
(***************************************************************************)
(* Model of the compile-fmt crate: the capacity estimation of format       *)
(* specifications (format.rs), the length estimation and the writing of    *)
(* arguments (argument.rs), the fixed-capacity buffer writer (lib.rs) and  *)
(* the UTF-8 scanner (utils.rs).                                           *)
(*                                                                         *)
(* Conventions.  A char is its Unicode scalar value (a number).  A &str is *)
(* the sequence of its chars; as_bytes(s) is its UTF-8 encoding, and every *)
(* scan of the code runs over those bytes.  Option<T> is a sequence of     *)
(* length 0 (None) or 1 (Some).  Rust arrays are 0-based, TLA+ sequences   *)
(* 1-based: buffer[pos] of the code is buffer[pos + 1] here.               *)
(***************************************************************************)
EXTENDS Integers, Sequences, FiniteSets, TLC

VARIABLES wrappers, arguments, CAP, buffer, len, arg_i, pc,
          pad_before, pad_after, count, arg_start, declared, panic_message, expr

vars == <<wrappers, arguments, CAP, buffer, len, arg_i, pc,
          pad_before, pad_after, count, arg_start, declared, panic_message, expr>>

----------------------------------------------------------------------------
(* Bounds of the model.                                                    *)

MaxStrChars == 2
MaxClip == 2
MaxWidth == 4
MaxArgs == 2
CapSlack == 1

----------------------------------------------------------------------------
(* Plain helpers.                                                          *)

None == <<>>
Some(x) == <<x>>
IsSome(o) == Len(o) = 1
Unwrap(o) == o[1]

RECURSIVE Pow2(_)
Pow2(k) == IF k = 0 THEN 1 ELSE 2 * Pow2(k - 1)

(* x >> k on unsigned values *)
Shr(x, k) == x \div Pow2(k)

(* x & y and x | y on unsigned values, bit by bit *)
RECURSIVE BitAnd(_, _)
BitAnd(x, y) ==
    IF x = 0 \/ y = 0 THEN 0
    ELSE (IF (x % 2) = 1 /\ (y % 2) = 1 THEN 1 ELSE 0) + 2 * BitAnd(x \div 2, y \div 2)

RECURSIVE BitOr(_, _)
BitOr(x, y) ==
    IF x = 0 THEN y
    ELSE IF y = 0 THEN x
    ELSE (IF (x % 2) = 1 \/ (y % 2) = 1 THEN 1 ELSE 0) + 2 * BitOr(x \div 2, y \div 2)

(* `x as u8` *)
AsU8(x) == x % 256

RECURSIVE Concat(_)
Concat(ss) == IF ss = <<>> THEN <<>> ELSE Head(ss) \o Concat(Tail(ss))

RECURSIVE SumSeq(_)
SumSeq(ns) == IF ns = <<>> THEN 0 ELSE Head(ns) + SumSeq(Tail(ns))

Repeat(x, n) == [i \in 1..n |-> x]

(* all sequences over S of length 0..n *)
SeqsUpTo(S, n) == UNION {[1..k -> S] : k \in 0..n}

----------------------------------------------------------------------------
(* Chars and strings of the standard library.                              *)

(* char::len_utf8 *)
len_utf8(c) ==
    IF c < 128 THEN 1
    ELSE IF c < 2048 THEN 2
    ELSE IF c < 65536 THEN 3
    ELSE 4

(* the UTF-8 encoding of one char, as the compiler stores it in a &str *)
encode_utf8(c) ==
    CASE len_utf8(c) = 1 -> <<c>>
      [] len_utf8(c) = 2 -> <<192 + (c \div 64), 128 + (c % 64)>>
      [] len_utf8(c) = 3 -> <<224 + (c \div 4096), 128 + ((c \div 64) % 64),
                              128 + (c % 64)>>
      [] OTHER -> <<240 + (c \div 262144), 128 + ((c \div 4096) % 64),
                    128 + ((c \div 64) % 64), 128 + (c % 64)>>

(* str::as_bytes: the bytes of a string *)
as_bytes(s) == Concat([i \in 1..Len(s) |-> encode_utf8(s[i])])

(* str::len: the byte length of a string *)
str_len(s) == Len(as_bytes(s))

----------------------------------------------------------------------------
(* utils.rs: the UTF-8 scanner.                                            *)

(* a faulty scalar_width: the four-byte arm is missing and falls into the  *)
(* three-byte one                                                          *)
scalar_width_no_four(b) ==
    IF b < 128 THEN 1
    ELSE IF Shr(b, 5) = 6 THEN 2
    ELSE 3

(* the branch on the leading byte shared by ClippedStr::new and            *)
(* count_chars; 0 stands for the unreachable!() arm                        *)
scalar_width(b) ==
    IF b < 128 THEN 1
    ELSE IF Shr(b, 5) = 6 THEN 2
    ELSE IF Shr(b, 4) = 14 THEN 3
    ELSE IF Shr(b, 3) = 30 THEN 4
    ELSE 0

(* a faulty clip_scan: char_count is counted in bytes *)
RECURSIVE clip_scan_by_bytes(_, _, _)
clip_scan_by_bytes(s_bytes, pos, char_count) ==
    IF pos < Len(s_bytes) /\ char_count > 0
    THEN clip_scan_by_bytes(s_bytes, pos + 1, char_count - 1)
    ELSE pos

(* the while loop of ClippedStr::new; the result is the final pos, or -1   *)
(* when the unreachable!() arm is taken                                    *)
RECURSIVE clip_scan(_, _, _)
clip_scan(s_bytes, pos, char_count) ==
    IF pos < Len(s_bytes) /\ char_count > 0
    THEN IF scalar_width(s_bytes[pos + 1]) = 0 THEN -1
         ELSE clip_scan(s_bytes, pos + scalar_width(s_bytes[pos + 1]), char_count - 1)
    ELSE pos

(* a faulty ClippedStr::new: pos <= s_bytes.len() decides Clipped, so a    *)
(* string scanned to its end counts as clipped                             *)
ClippedStr_new_le(s, char_count) ==
    LET s_bytes == as_bytes(s)
        pos == clip_scan(s_bytes, 0, char_count)
    IN  IF pos < 0 \/ pos > Len(s_bytes)
        THEN [tag |-> "Panic", bytes |-> <<>>]
        ELSE IF pos <= Len(s_bytes)
        THEN [tag |-> "Clipped", bytes |-> SubSeq(s_bytes, 1, pos)]
        ELSE [tag |-> "Full", bytes |-> SubSeq(s_bytes, 1, pos)]

(* ClippedStr::new(s, char_count): the variant and the bytes it holds *)
ClippedStr_new(s, char_count) ==
    LET s_bytes == as_bytes(s)
        pos == clip_scan(s_bytes, 0, char_count)
    IN  IF pos < 0 \/ pos > Len(s_bytes)
        THEN [tag |-> "Panic", bytes |-> <<>>]
        ELSE IF pos < Len(s_bytes)
        THEN [tag |-> "Clipped", bytes |-> SubSeq(s_bytes, 1, pos)]
        ELSE [tag |-> "Full", bytes |-> SubSeq(s_bytes, 1, pos)]

(* the while loop of count_chars *)
RECURSIVE count_scan(_, _, _)
count_scan(s_bytes, pos, char_count) ==
    IF pos < Len(s_bytes)
    THEN IF scalar_width(s_bytes[pos + 1]) = 0 THEN -1
         ELSE count_scan(s_bytes, pos + scalar_width(s_bytes[pos + 1]), char_count + 1)
    ELSE char_count

(* a faulty count_chars: the number of bytes *)
count_chars_in_bytes(s) == Len(as_bytes(s))

count_chars(s) == count_scan(as_bytes(s), 0, 0)

(* the loop of assert_is_ascii: TRUE when it returns without panicking *)
is_ascii(s) == \A i \in 1..Len(as_bytes(s)) : as_bytes(s)[i] < 128

CLIP_LEN == 32

(* the while loop of assert_is_ascii: the pos of the first byte that is    *)
(* not < 128, as an Option; None when the loop runs to the end             *)
RECURSIVE ascii_scan(_, _)
ascii_scan(s_bytes, pos) ==
    IF pos < Len(s_bytes)
    THEN IF s_bytes[pos + 1] < 128 THEN ascii_scan(s_bytes, pos + 1)
         ELSE Some(pos)
    ELSE None

(* the arguments of the panic message of assert_is_ascii: the string as    *)
(* `s => clip(CLIP_LEN, "...")` formats it, and the position.  The         *)
(* replacement is U+2026: utils.rs holds it doubly encoded, as the other   *)
(* files hold their non-ASCII literals.                                    *)
non_ascii_message(s, pos) ==
    LET clipped == ClippedStr_new(s, CLIP_LEN)
    IN  [string |-> IF clipped.tag = "Clipped" THEN clipped.bytes \o as_bytes(<<8230>>)
                    ELSE clipped.bytes,
         position |-> pos]

(* a faulty assert_is_ascii: the position is counted from one *)
assert_is_ascii_from_one(s) ==
    LET found == ascii_scan(as_bytes(s), 0)
    IN  IF IsSome(found) THEN Some(non_ascii_message(s, Unwrap(found) + 1)) ELSE None

(* assert_is_ascii(s): the panic message as an Option, None when the       *)
(* function returns                                                        *)
assert_is_ascii(s) ==
    LET found == ascii_scan(as_bytes(s), 0)
    IN  IF IsSome(found) THEN Some(non_ascii_message(s, Unwrap(found))) ELSE None

----------------------------------------------------------------------------
(* format.rs: lengths, padding and format specifications.                  *)

StrLength(bytes, chars) == [bytes |-> bytes, chars |-> chars]

for_str(s) == StrLength(str_len(s), count_chars(s))

for_char(c) == StrLength(len_utf8(c), 1)

both(value) == StrLength(value, value)

Pad(align, width, using) == [align |-> align, width |-> width, using |-> using]

(* a faulty compute_padding: Center drops the odd remainder *)
compute_padding_center_even(pad, char_count) ==
    IF char_count >= pad.width THEN <<0, 0>>
    ELSE CASE pad.align = "Left" -> <<0, pad.width - char_count>>
           [] pad.align = "Right" -> <<pad.width - char_count, 0>>
           [] OTHER ->
                LET total_padding == pad.width - char_count
                IN  <<total_padding \div 2, total_padding \div 2>>

(* a faulty compute_padding: the fill always goes after the content *)
compute_padding_always_after(pad, char_count) ==
    IF char_count >= pad.width THEN <<0, 0>>
    ELSE <<0, pad.width - char_count>>

(* a faulty compute_padding: Left and Right are exchanged *)
compute_padding_swapped(pad, char_count) ==
    IF char_count >= pad.width THEN <<0, 0>>
    ELSE CASE pad.align = "Left" -> <<pad.width - char_count, 0>>
           [] pad.align = "Right" -> <<0, pad.width - char_count>>
           [] OTHER ->
                LET total_padding == pad.width - char_count
                IN  <<total_padding \div 2, total_padding - (total_padding \div 2)>>

compute_padding(pad, char_count) ==
    IF char_count >= pad.width THEN <<0, 0>>
    ELSE CASE pad.align = "Left" -> <<0, pad.width - char_count>>
           [] pad.align = "Right" -> <<pad.width - char_count, 0>>
           [] OTHER ->
                LET total_padding == pad.width - char_count
                IN  <<total_padding \div 2, total_padding - (total_padding \div 2)>>

StrFormat(clip_at, using) == [clip_at |-> clip_at, using |-> using]

(* FormatArgument::MAX_BYTES_PER_CHAR of the type a format is for *)
MAX_BYTES_PER_CHAR(ty) ==
    CASE ty = "str" -> 4
      [] ty = "char" -> 4
      [] OTHER -> 1

UnsignedTypes == {"u8", "u16"}
SignedTypes == {"i8", "i16"}
IntTypes == UnsignedTypes \cup SignedTypes

Bits(ty) == IF ty \in {"u8", "i8"} THEN 8 ELSE 16

(* T::MIN and T::MAX *)
IntMin(ty) == IF ty \in UnsignedTypes THEN 0 ELSE -Pow2(Bits(ty) - 1)
IntMax(ty) == IF ty \in UnsignedTypes THEN Pow2(Bits(ty)) - 1 ELSE Pow2(Bits(ty) - 1) - 1

----------------------------------------------------------------------------
(* argument.rs: arguments and their estimated length.                      *)

(* the variants of ArgumentInner *)
Str(s, fmt) == [kind |-> "Str", s |-> s, fmt |-> fmt]
Char(c) == [kind |-> "Char", c |-> c]
Int_i128(value) == [kind |-> "Int", value |-> value]
UnsignedInt(value) == [kind |-> "UnsignedInt", value |-> value]

Argument(inner, pad) == [inner |-> inner, pad |-> pad]

(* a faulty magnitude: the absolute value saturates at the largest value   *)
(* of the signed type                                                      *)
saturating_abs(value) ==
    IF value = -128 THEN 127
    ELSE IF value = -32768 THEN 32767
    ELSE IF value < 0 THEN -value ELSE value

(* i128::unsigned_abs *)
unsigned_abs(value) == IF value < 0 THEN -value ELSE value

(* the while loop of log_10_ceil *)
RECURSIVE log_10_loop(_, _)
log_10_loop(value, log) ==
    IF value > 0 THEN log_10_loop(value \div 10, log + 1) ELSE log

(* a faulty log_10_ceil: the special case of zero is missing *)
log_10_ceil_no_zero(value) == log_10_loop(value, 0)

log_10_ceil(value) == IF value = 0 THEN 1 ELSE log_10_loop(value, 0)

(* a faulty ArgumentInner::formatted_len: the chars of the replacement are *)
(* not counted                                                             *)
inner_formatted_len_no_using(inner) ==
    CASE inner.kind = "Str" ->
            IF ~IsSome(inner.fmt) THEN for_str(inner.s)
            ELSE LET fmt == Unwrap(inner.fmt)
                     clipped == ClippedStr_new(inner.s, fmt.clip_at)
                 IN  IF clipped.tag = "Full" THEN for_str(inner.s)
                     ELSE StrLength(Len(clipped.bytes) + str_len(fmt.using), fmt.clip_at)
      [] inner.kind = "Char" -> for_char(inner.c)
      [] inner.kind = "Int" ->
            both((IF inner.value < 0 THEN 1 ELSE 0) + log_10_ceil(unsigned_abs(inner.value)))
      [] OTHER -> both(log_10_ceil(inner.value))

(* a faulty ArgumentInner::formatted_len: a clipped string is given the    *)
(* char count of the whole string                                          *)
inner_formatted_len_unclipped(inner) ==
    CASE inner.kind = "Str" ->
            IF ~IsSome(inner.fmt) THEN for_str(inner.s)
            ELSE LET fmt == Unwrap(inner.fmt)
                     clipped == ClippedStr_new(inner.s, fmt.clip_at)
                 IN  IF clipped.tag = "Full" THEN for_str(inner.s)
                     ELSE StrLength(Len(clipped.bytes) + str_len(fmt.using),
                                    count_chars(inner.s))
      [] inner.kind = "Char" -> for_char(inner.c)
      [] inner.kind = "Int" ->
            both((IF inner.value < 0 THEN 1 ELSE 0) + log_10_ceil(unsigned_abs(inner.value)))
      [] OTHER -> both(log_10_ceil(inner.value))

(* a faulty ArgumentInner::formatted_len: the string counts as clipped     *)
(* when it has more bytes, not more chars, than clip_at                    *)
inner_formatted_len_by_bytes(inner) ==
    CASE inner.kind = "Str" ->
            IF ~IsSome(inner.fmt) THEN for_str(inner.s)
            ELSE LET fmt == Unwrap(inner.fmt)
                     clipped == ClippedStr_new(inner.s, fmt.clip_at)
                 IN  IF str_len(inner.s) <= fmt.clip_at THEN for_str(inner.s)
                     ELSE StrLength(Len(clipped.bytes) + str_len(fmt.using),
                                    fmt.clip_at + count_chars(fmt.using))
      [] inner.kind = "Char" -> for_char(inner.c)
      [] inner.kind = "Int" ->
            both((IF inner.value < 0 THEN 1 ELSE 0) + log_10_ceil(unsigned_abs(inner.value)))
      [] OTHER -> both(log_10_ceil(inner.value))

(* ArgumentInner::formatted_len *)
inner_formatted_len(inner) ==
    CASE inner.kind = "Str" ->
            IF ~IsSome(inner.fmt) THEN for_str(inner.s)
            ELSE LET fmt == Unwrap(inner.fmt)
                     clipped == ClippedStr_new(inner.s, fmt.clip_at)
                 IN  IF clipped.tag = "Full" THEN for_str(inner.s)
                     ELSE StrLength(Len(clipped.bytes) + str_len(fmt.using),
                                    fmt.clip_at + count_chars(fmt.using))
      [] inner.kind = "Char" -> for_char(inner.c)
      [] inner.kind = "Int" ->
            both((IF inner.value < 0 THEN 1 ELSE 0) + log_10_ceil(unsigned_abs(inner.value)))
      [] OTHER -> both(log_10_ceil(inner.value))

(* a faulty Argument::formatted_len: the pad width is compared with the    *)
(* byte length                                                             *)
formatted_len_width_in_bytes(arg) ==
    LET non_padded_len == inner_formatted_len(arg.inner)
    IN  IF IsSome(arg.pad)
        THEN LET pad == Unwrap(arg.pad)
             IN  IF pad.width > non_padded_len.bytes
                 THEN (pad.width - non_padded_len.bytes) * len_utf8(pad.using)
                      + non_padded_len.bytes
                 ELSE non_padded_len.bytes
        ELSE non_padded_len.bytes

(* Argument::formatted_len *)
formatted_len(arg) ==
    LET non_padded_len == inner_formatted_len(arg.inner)
    IN  IF IsSome(arg.pad)
        THEN LET pad == Unwrap(arg.pad)
             IN  IF pad.width > non_padded_len.chars
                 THEN (pad.width - non_padded_len.chars) * len_utf8(pad.using)
                      + non_padded_len.bytes
                 ELSE non_padded_len.bytes
        ELSE non_padded_len.bytes

(* ArgumentWrapper::new and with_fmt; ty is the type parameter T *)
(* (the value of a string wrapper is held in the field str, that of a     *)
(* char or integer wrapper in the field value)                             *)
StringTypes == {"str", "Ascii"}

ArgumentWrapper_new(ty, value) ==
    IF ty \in StringTypes THEN [ty |-> ty, str |-> value, fmt |-> None]
    ELSE [ty |-> ty, value |-> value, fmt |-> None]

with_fmt(wrapper, fmt) == [wrapper EXCEPT !.fmt = Some(fmt)]

(* Ascii::new(s): the panic of assert_is_ascii, or the wrapped string *)
Ascii_new(s) == [panic |-> assert_is_ascii(s), value |-> s]

(* ArgumentWrapper::new(&args) for args: CompileArgs<CAP>, held in the     *)
(* field args as its buffer and len                                        *)
ArgumentWrapper_new_nested(args) == [ty |-> "CompileArgs", args |-> args, fmt |-> None]

(* core::str::from_utf8_unchecked: the chars a well-formed byte sequence   *)
(* encodes                                                                 *)
RECURSIVE from_utf8_unchecked(_)
from_utf8_unchecked(bytes) ==
    IF bytes = <<>> THEN <<>>
    ELSE LET b == bytes[1]
             n == Len(bytes)
         IN  IF b < 192 \/ n < 2
             THEN <<b>> \o from_utf8_unchecked(Tail(bytes))
             ELSE IF b < 224 \/ n < 3
             THEN <<(b - 192) * 64 + (bytes[2] % 64)>>
                  \o from_utf8_unchecked(SubSeq(bytes, 3, n))
             ELSE IF b < 240 \/ n < 4
             THEN <<(b - 224) * 4096 + (bytes[2] % 64) * 64 + (bytes[3] % 64)>>
                  \o from_utf8_unchecked(SubSeq(bytes, 4, n))
             ELSE <<(b - 240) * 262144 + (bytes[2] % 64) * 4096 + (bytes[3] % 64) * 64
                    + (bytes[4] % 64)>>
                  \o from_utf8_unchecked(SubSeq(bytes, 5, n))

(* a faulty as_str: the whole buffer, whatever len is *)
as_str_whole_buffer(self) == self.buffer

(* CompileArgs::as_str: the first len bytes of the buffer (lib.rs); the    *)
(* str it returns is from_utf8_unchecked of these bytes                    *)
as_str(self) == SubSeq(self.buffer, 1, self.len)

(* a faulty into_argument: a nested CompileArgs contributes its whole      *)
(* buffer, CAP bytes, instead of its first len bytes                       *)
into_argument_nested_cap(wrapper) ==
    LET pad == IF IsSome(wrapper.fmt) THEN Unwrap(wrapper.fmt).pad ELSE None
        str_fmt == IF IsSome(wrapper.fmt) THEN Some(Unwrap(wrapper.fmt).details) ELSE None
    IN  CASE wrapper.ty \in StringTypes -> Argument(Str(wrapper.str, str_fmt), pad)
          [] wrapper.ty = "CompileArgs" ->
                Argument(Str(from_utf8_unchecked(wrapper.args.buffer), None), None)
          [] wrapper.ty = "char" -> Argument(Char(wrapper.value), pad)
          [] wrapper.ty \in SignedTypes -> Argument(Int_i128(wrapper.value), pad)
          [] OTHER -> Argument(UnsignedInt(wrapper.value), pad)

(* ArgumentWrapper<T>::into_argument, for each T *)
into_argument(wrapper) ==
    LET pad == IF IsSome(wrapper.fmt) THEN Unwrap(wrapper.fmt).pad ELSE None
        str_fmt == IF IsSome(wrapper.fmt) THEN Some(Unwrap(wrapper.fmt).details) ELSE None
    IN  CASE wrapper.ty \in StringTypes -> Argument(Str(wrapper.str, str_fmt), pad)
          [] wrapper.ty = "CompileArgs" ->
                Argument(Str(from_utf8_unchecked(as_str(wrapper.args)), None), None)
          [] wrapper.ty = "char" -> Argument(Char(wrapper.value), pad)
          [] wrapper.ty \in SignedTypes -> Argument(Int_i128(wrapper.value), pad)
          [] OTHER -> Argument(UnsignedInt(wrapper.value), pad)

----------------------------------------------------------------------------
(* format.rs: format specifications and their capacity.                    *)

(* a faulty MAX_LENGTH: the length of T::MAX for the signed types too *)
MAX_LENGTH_of_max(ty) ==
    CASE ty = "char" -> StrLength(4, 1)
      [] OTHER -> both(formatted_len(into_argument(ArgumentWrapper_new(ty, IntMax(ty)))))

(* MaxLength::MAX_LENGTH *)
MAX_LENGTH(ty) ==
    CASE ty = "char" -> StrLength(4, 1)
      [] ty \in UnsignedTypes ->
            both(formatted_len(into_argument(ArgumentWrapper_new(ty, IntMax(ty)))))
      [] OTHER ->
            both(formatted_len(into_argument(ArgumentWrapper_new(ty, IntMin(ty)))))

(* the Details of the types other than strings: () *)
Unit == [unit |-> TRUE]

Fmt(ty, capacity, details, pad) ==
    [ty |-> ty, capacity |-> capacity, details |-> details, pad |-> pad]

(* fmt::<T>() *)
fmt(ty) == Fmt(ty, MAX_LENGTH(ty), Unit, None)

(* clip(clip_at, using); the assertion is clip_precondition *)
clip(clip_at, using) ==
    Fmt("str",
        StrLength(clip_at * MAX_LENGTH("char").bytes + str_len(using),
                  clip_at + count_chars(using)),
        StrFormat(clip_at, using), None)

(* a faulty clip_ascii: the replacement is left out of the capacity *)
clip_ascii_no_using(clip_at, using) ==
    Fmt("Ascii", both(clip_at), StrFormat(clip_at, using), None)

(* clip_ascii(clip_at, using) *)
clip_ascii(clip_at, using) ==
    Fmt("Ascii", both(clip_at + str_len(using)), StrFormat(clip_at, using), None)

(* Fmt::pad, called by pad_left / pad_right / pad_center *)
with_pad(self, align, width, using) == [self EXCEPT !.pad = Some(Pad(align, width, using))]

pad_left(self, width, using) == with_pad(self, "Left", width, using)

pad_right(self, width, using) == with_pad(self, "Right", width, using)
pad_center(self, width, using) == with_pad(self, "Center", width, using)

(* a faulty Fmt::capacity: the simpler bound without min_pad_capacity *)
capacity_full_pad_only(self) ==
    IF IsSome(self.pad)
    THEN LET pad == Unwrap(self.pad)
             full_pad_capacity == len_utf8(pad.using) * pad.width
         IN  IF full_pad_capacity > self.capacity.bytes
             THEN full_pad_capacity ELSE self.capacity.bytes
    ELSE self.capacity.bytes

(* a faulty Fmt::capacity: the full pad is added to the unpadded capacity *)
capacity_sum(self) ==
    IF IsSome(self.pad)
    THEN len_utf8(Unwrap(self.pad).using) * Unwrap(self.pad).width + self.capacity.bytes
    ELSE self.capacity.bytes

(* a faulty Fmt::capacity: full_pad_capacity is left out *)
capacity_min_pad_only(self) ==
    IF IsSome(self.pad)
    THEN LET pad == Unwrap(self.pad)
             max_width == IF self.capacity.chars > pad.width
                          THEN pad.width ELSE self.capacity.chars
             min_pad_capacity ==
                 len_utf8(pad.using) * (pad.width - max_width)
                 + max_width * MAX_BYTES_PER_CHAR(self.ty)
         IN  IF min_pad_capacity > self.capacity.bytes
             THEN min_pad_capacity ELSE self.capacity.bytes
    ELSE self.capacity.bytes

(* Fmt::capacity *)
capacity(self) ==
    IF IsSome(self.pad)
    THEN LET pad == Unwrap(self.pad)
             full_pad_capacity == len_utf8(pad.using) * pad.width
             max_width == IF self.capacity.chars > pad.width
                          THEN pad.width ELSE self.capacity.chars
             min_pad_capacity ==
                 len_utf8(pad.using) * (pad.width - max_width)
                 + max_width * MAX_BYTES_PER_CHAR(self.ty)
             pad_capacity == IF full_pad_capacity > min_pad_capacity
                             THEN full_pad_capacity ELSE min_pad_capacity
         IN  IF pad_capacity > self.capacity.bytes
             THEN pad_capacity ELSE self.capacity.bytes
    ELSE self.capacity.bytes

----------------------------------------------------------------------------
(* The same functions with the arithmetic of usize, as the constant        *)
(* expression of compile_args! (`const __CAPACITY`) evaluates them.  The   *)
(* code writes + and *: when the result does not fit in usize the          *)
(* evaluation stops with an error (Overflow) in a build with overflow      *)
(* checks, and the result wraps around in a build without them (the        *)
(* release profile).  The body of a constant item is always checked.  The  *)
(* usize of a build is 16, 32 or 64 bits wide; the model takes the         *)
(* narrowest, so that the capacities at both sides of USIZE_MAX are        *)
(* explored.                                                               *)

USIZE_BITS == 16
USIZE_MAX == Pow2(USIZE_BITS) - 1
Overflow == 0 - 1

(* a + b on usize *)
usize_add(overflow_checks, a, b) ==
    IF a = Overflow \/ b = Overflow THEN Overflow
    ELSE IF a + b > USIZE_MAX
    THEN IF overflow_checks THEN Overflow ELSE (a + b) % (USIZE_MAX + 1)
    ELSE a + b

(* a * b on usize *)
usize_mul(overflow_checks, a, b) ==
    IF a = Overflow \/ b = Overflow THEN Overflow
    ELSE IF a * b > USIZE_MAX
    THEN IF overflow_checks THEN Overflow ELSE (a * b) % (USIZE_MAX + 1)
    ELSE a * b

ClipPanic == [message |-> "Clip width must be positive"]

(* the Fmt that clip and clip_ascii return, or the overflow of its capacity *)
clip_result(ty, bytes, chars, clip_at, using) ==
    IF bytes = Overflow \/ chars = Overflow THEN [tag |-> "Overflow"]
    ELSE [tag |-> "Ok",
          fmt |-> Fmt(ty, StrLength(bytes, chars), StrFormat(clip_at, using), None)]

(* a faulty clip: the assertion on clip_at is left out *)
const_clip_unasserted(overflow_checks, clip_at, using) ==
    clip_result("str",
                usize_add(overflow_checks,
                          usize_mul(overflow_checks, clip_at, MAX_LENGTH("char").bytes),
                          str_len(using)),
                usize_add(overflow_checks, clip_at, count_chars(using)),
                clip_at, using)

(* clip(clip_at, using): the format, the panic of the assertion, or the    *)
(* overflow of the capacity                                                *)
const_clip(overflow_checks, clip_at, using) ==
    IF ~(clip_at > 0) THEN [tag |-> "Panic", message |-> ClipPanic]
    ELSE clip_result("str",
                     usize_add(overflow_checks,
                               usize_mul(overflow_checks, clip_at,
                                         MAX_LENGTH("char").bytes),
                               str_len(using)),
                     usize_add(overflow_checks, clip_at, count_chars(using)),
                     clip_at, using)

(* the panic of assert_is_ascii(using) in clip_ascii *)
using_panic(failure) == [tag |-> "Panic", message |-> Unwrap(failure)]

(* clip_ascii(clip_at, using) *)
const_clip_ascii(overflow_checks, clip_at, using) ==
    IF ~(clip_at > 0) THEN [tag |-> "Panic", message |-> ClipPanic]
    ELSE IF ~is_ascii(using) THEN using_panic(assert_is_ascii(using))
    ELSE clip_result("Ascii",
                     usize_add(overflow_checks, clip_at, str_len(using)),
                     usize_add(overflow_checks, clip_at, str_len(using)),
                     clip_at, using)

(* the last step of Fmt::capacity: the larger of two capacities *)
larger(a, b) == IF a = Overflow \/ b = Overflow THEN Overflow ELSE IF a > b THEN a ELSE b

(* Fmt::capacity *)
const_capacity(overflow_checks, self) ==
    IF IsSome(self.pad)
    THEN larger(larger(usize_mul(overflow_checks, len_utf8(Unwrap(self.pad).using),
                                 Unwrap(self.pad).width),
                       usize_add(overflow_checks,
                                 usize_mul(overflow_checks, len_utf8(Unwrap(self.pad).using),
                                           Unwrap(self.pad).width
                                           - (IF self.capacity.chars > Unwrap(self.pad).width
                                              THEN Unwrap(self.pad).width
                                              ELSE self.capacity.chars)),
                                 usize_mul(overflow_checks,
                                           IF self.capacity.chars > Unwrap(self.pad).width
                                           THEN Unwrap(self.pad).width
                                           ELSE self.capacity.chars,
                                           MAX_BYTES_PER_CHAR(self.ty)))),
                self.capacity.bytes)
    ELSE self.capacity.bytes

----------------------------------------------------------------------------
(* macros.rs: the capacity the compile_args! macro infers.                 *)

(* __compile_args_impl!(@arg_capacity ...) *)
arg_capacity(wrapper) ==
    IF IsSome(wrapper.fmt) THEN capacity(Unwrap(wrapper.fmt))
    ELSE formatted_len(into_argument(wrapper))

(* __compile_args_impl!(@total_capacity ...) *)
total_capacity(ws) == SumSeq([i \in 1..Len(ws) |-> arg_capacity(ws[i])])

(* the same with the arithmetic of usize; the sum is written in the body   *)
(* of the constant item, where overflow is always checked                  *)
const_arg_capacity(overflow_checks, wrapper) ==
    IF IsSome(wrapper.fmt) THEN const_capacity(overflow_checks, Unwrap(wrapper.fmt))
    ELSE formatted_len(into_argument(wrapper))

RECURSIVE const_sum(_)
const_sum(ns) ==
    IF Len(ns) = 1 THEN ns[1]
    ELSE usize_add(TRUE, const_sum(SubSeq(ns, 1, Len(ns) - 1)), ns[Len(ns)])

const_total_capacity(overflow_checks, ws) ==
    const_sum([i \in 1..Len(ws) |-> const_arg_capacity(overflow_checks, ws[i])])

(* CompileArgs::<CAP>::assert_capacity(required_capacity): the panic       *)
(* message when CAP < required_capacity, which names both byte counts, and *)
(* None when the assertion passes                                          *)
assert_capacity(cap, required_capacity) ==
    IF cap < required_capacity
    THEN Some([declared |-> cap, required |-> required_capacity])
    ELSE None

----------------------------------------------------------------------------
(* lib.rs, argument.rs: the buffer writer.  A writer value is the buffer   *)
(* and its len; an append returns the new writer, or Panicked when an      *)
(* index is out of the bounds of the array.                                *)

TAG_CONT == 128
TAG_TWO_BYTES == 192
TAG_THREE_BYTES == 224
TAG_FOUR_BYTES == 240

Writer(buf, n) == [buffer |-> buf, len |-> n, panicked |-> FALSE]

Panicked == [buffer |-> <<>>, len |-> 0, panicked |-> TRUE]

(* CompileArgs::new *)
CompileArgs_new(cap) == Writer([i \in 1..cap |-> 0], 0)

(* a faulty store_bytes: a store out of the bounds of the array is dropped *)
(* instead of panicking                                                    *)
RECURSIVE store_bytes_unchecked(_, _, _, _, _)
store_bytes_unchecked(buf, pos, bytes, k, new_len) ==
    IF k > Len(bytes) THEN Writer(buf, new_len)
    ELSE IF pos >= Len(buf)
    THEN store_bytes_unchecked(buf, pos + 1, bytes, k + 1, new_len)
    ELSE store_bytes_unchecked([buf EXCEPT ![pos + 1] = bytes[k]], pos + 1, bytes, k + 1,
                               new_len)

(* buffer[pos] = bytes[k], buffer[pos + 1] = bytes[k + 1], ... each with   *)
(* the bounds check of array indexing; new_len is the len of the result    *)
RECURSIVE store_bytes(_, _, _, _, _)
store_bytes(buf, pos, bytes, k, new_len) ==
    IF k > Len(bytes) THEN Writer(buf, new_len)
    ELSE IF pos >= Len(buf) THEN Panicked
    ELSE store_bytes([buf EXCEPT ![pos + 1] = bytes[k]], pos + 1, bytes, k + 1, new_len)

(* a faulty write_str_bytes: the source index is not rebased by self.len *)
write_str_bytes_no_offset(self, s_bytes) ==
    LET new_len == self.len + Len(s_bytes)
    IN  store_bytes(self.buffer, self.len, s_bytes, self.len + 1, new_len)

(* CompileArgs::write_str_bytes *)
write_str_bytes(self, s_bytes) ==
    LET new_len == self.len + Len(s_bytes)
    IN  store_bytes(self.buffer, self.len, s_bytes, 1, new_len)

(* a faulty write_char: the bytes after the first carry the tag of a       *)
(* two-byte leading byte                                                   *)
char_bytes_lead_tag(c) ==
    LET code == c
    IN  CASE len_utf8(c) = 1 -> <<AsU8(code)>>
          [] len_utf8(c) = 2 ->
                <<BitOr(AsU8(BitAnd(Shr(code, 6), 31)), TAG_TWO_BYTES),
                  BitOr(AsU8(BitAnd(code, 63)), TAG_TWO_BYTES)>>
          [] len_utf8(c) = 3 ->
                <<BitOr(AsU8(BitAnd(Shr(code, 12), 15)), TAG_THREE_BYTES),
                  BitOr(AsU8(BitAnd(Shr(code, 6), 63)), TAG_TWO_BYTES),
                  BitOr(AsU8(BitAnd(code, 63)), TAG_TWO_BYTES)>>
          [] OTHER ->
                <<BitOr(AsU8(BitAnd(Shr(code, 18), 7)), TAG_FOUR_BYTES),
                  BitOr(AsU8(BitAnd(Shr(code, 12), 63)), TAG_TWO_BYTES),
                  BitOr(AsU8(BitAnd(Shr(code, 6), 63)), TAG_TWO_BYTES),
                  BitOr(AsU8(BitAnd(code, 63)), TAG_TWO_BYTES)>>

(* the bytes write_char computes for c, by the match on c.len_utf8() *)
char_bytes(c) ==
    LET code == c
    IN  CASE len_utf8(c) = 1 -> <<AsU8(code)>>
          [] len_utf8(c) = 2 ->
                <<BitOr(AsU8(BitAnd(Shr(code, 6), 31)), TAG_TWO_BYTES),
                  BitOr(AsU8(BitAnd(code, 63)), TAG_CONT)>>
          [] len_utf8(c) = 3 ->
                <<BitOr(AsU8(BitAnd(Shr(code, 12), 15)), TAG_THREE_BYTES),
                  BitOr(AsU8(BitAnd(Shr(code, 6), 63)), TAG_CONT),
                  BitOr(AsU8(BitAnd(code, 63)), TAG_CONT)>>
          [] OTHER ->
                <<BitOr(AsU8(BitAnd(Shr(code, 18), 7)), TAG_FOUR_BYTES),
                  BitOr(AsU8(BitAnd(Shr(code, 12), 63)), TAG_CONT),
                  BitOr(AsU8(BitAnd(Shr(code, 6), 63)), TAG_CONT),
                  BitOr(AsU8(BitAnd(code, 63)), TAG_CONT)>>

(* CompileArgs::write_char *)
write_char(self, c) ==
    LET new_len == self.len + len_utf8(c)
    IN  store_bytes(self.buffer, self.len, char_bytes(c), 1, new_len)

(* the loop of write_u128: digits from the last position backwards *)
RECURSIVE write_digits(_, _, _, _, _)
write_digits(buf, pos, value, start, new_len) ==
    IF pos >= Len(buf) THEN Panicked
    ELSE LET stored == [buf EXCEPT ![pos + 1] = 48 + (value % 10)]
         IN  IF pos = start THEN Writer(stored, new_len)
             ELSE write_digits(stored, pos - 1, value \div 10, start, new_len)

(* a faulty write_u128: the digits are stored from the first position      *)
(* forwards, least significant first                                       *)
RECURSIVE write_digits_forwards(_, _, _, _, _)
write_digits_forwards(buf, pos, value, last, new_len) ==
    IF pos >= Len(buf) THEN Panicked
    ELSE LET stored == [buf EXCEPT ![pos + 1] = 48 + (value % 10)]
         IN  IF pos = last THEN Writer(stored, new_len)
             ELSE write_digits_forwards(stored, pos + 1, value \div 10, last, new_len)

write_u128_lsd_first(self, value) ==
    LET new_len == self.len + log_10_ceil(value)
    IN  write_digits_forwards(self.buffer, self.len, value, new_len - 1, new_len)

(* a faulty write_u128: the digits are stored one position too far *)
write_u128_shifted(self, value) ==
    LET new_len == self.len + log_10_ceil(value)
    IN  write_digits(self.buffer, new_len, value, self.len + 1, new_len)

(* CompileArgs::write_u128 *)
write_u128(self, value) ==
    LET new_len == self.len + log_10_ceil(value)
    IN  write_digits(self.buffer, new_len - 1, value, self.len, new_len)

----------------------------------------------------------------------------
(* The call sites the model explores.                                      *)

Space == 32
Dash == 45
Zero == 48
Bracket == 91
LatinI == 105
SharpS == 223
DoubleR == 8477
Ellipsis == 8230
Bomb == 128163

Aligns == {"Left", "Right", "Center"}
Fills == {Space, DoubleR, Bomb}
Pads == {Pad(a, w, u) : a \in Aligns, w \in 0..MaxWidth, u \in Fills}

(* a format, bare or with one of the pads *)
Padded(f) == {f} \cup {with_pad(f, p.align, p.width, p.using) : p \in Pads}

Strs == SeqsUpTo({LatinI, SharpS, Bomb}, MaxStrChars) \cup {<<DoubleR>>, <<DoubleR, LatinI>>}
AsciiStrs == SeqsUpTo({LatinI, Bracket}, MaxStrChars)
Usings == {<<>>, <<Dash>>, <<Ellipsis>>}
AsciiUsings == {<<>>, <<Dash>>}

(* clip and clip_ascii assert clip_at > 0, and clip_ascii that `using` is  *)
(* ASCII: only formats that pass are built                                 *)
StrFmts == UNION {Padded(clip(n, r)) : n \in 1..MaxClip, r \in Usings}
AsciiFmts == UNION {Padded(clip_ascii(n, r)) :
                        n \in 1..MaxClip, r \in {u \in AsciiUsings : is_ascii(u)}}

Values(ty) ==
    CASE ty = "char" -> {LatinI, SharpS, DoubleR, Bomb}
      [] OTHER -> {v \in {-32768, -32767, -10000, -9999, -1000, -999, -128, -127,
                          -100, -99, -10, -9, -1, 0, 1, 9, 10, 42, 99, 100, 127,
                          128, 255, 256, 999, 1000, 9999, 10000, 32767, 32768,
                          65535} : IntMin(ty) <= v /\ v <= IntMax(ty)}

(* `value => fmt`: a dynamic argument with its format *)
DynamicWrappers ==
    {with_fmt(ArgumentWrapper_new("str", s), f) : s \in Strs, f \in StrFmts}
    \cup {with_fmt(ArgumentWrapper_new("Ascii", s), f) :
              s \in {a \in AsciiStrs : is_ascii(a)}, f \in AsciiFmts}
    \cup UNION {{with_fmt(ArgumentWrapper_new(ty, v), f) :
                     v \in Values(ty), f \in Padded(fmt(ty))} :
                ty \in IntTypes \cup {"char"}}

(* `value`: a constant argument without a format *)
StaticWrappers ==
    {ArgumentWrapper_new("str", <<Bracket, SharpS>>),
     ArgumentWrapper_new("Ascii", <<LatinI>>),
     ArgumentWrapper_new("char", Bomb),
     ArgumentWrapper_new("i8", -7),
     ArgumentWrapper_new("u16", 32)}

(* the arguments of the calls with several arguments *)
ListWrappers ==
    StaticWrappers
    \cup {with_fmt(ArgumentWrapper_new("str", <<LatinI, Bomb>>),
                   pad_center(clip(1, <<Ellipsis>>), 3, SharpS)),
          with_fmt(ArgumentWrapper_new("i8", -128), pad_right(fmt("i8"), 2, Space)),
          with_fmt(ArgumentWrapper_new("u8", 42), pad_left(fmt("u8"), 3, DoubleR))}

(* compile_args!(...) with one dynamic argument: the capacity is inferred *)
MacroCalls ==
    {[ws |-> <<w>>, cap |-> total_capacity(<<w>>)] : w \in DynamicWrappers}

(* CompileArgs::<CAP>::format(&[...]) with several arguments and any CAP   *)
(* up to the inferred capacity and CapSlack bytes beyond it                *)
FormatCalls ==
    UNION {{[ws |-> ws, cap |-> cap] : cap \in 0..(total_capacity(ws) + CapSlack)} :
           ws \in UNION {[1..k -> ListWrappers] : k \in 2..MaxArgs}}

(* the calls of the documentation and of the tests: a padded number        *)
(* (format.rs, tests.rs) and the sum `2 + 2 = 4` (macros.rs); the integer  *)
(* types of the originals are wider, and go through the same code          *)
PaddedNumberCalls ==
    {[ws |-> <<with_fmt(ArgumentWrapper_new("u16", v), f)>>,
      cap |-> total_capacity(<<with_fmt(ArgumentWrapper_new("u16", v), f)>>)] :
        v \in {42, 19999},
        f \in {pad_left(fmt("u16"), 4, Zero), pad_right(fmt("u16"), 4, Zero)}}

SumArgs ==
    <<ArgumentWrapper_new("u16", 2), ArgumentWrapper_new("str", <<Space, 43, Space>>),
      ArgumentWrapper_new("u16", 2), ArgumentWrapper_new("str", <<Space, 61, Space>>),
      ArgumentWrapper_new("u16", 2 + 2)>>

ScenarioCalls == PaddedNumberCalls \cup {[ws |-> SumArgs, cap |-> total_capacity(SumArgs)]}

(* compile_args!(capacity: C, ...): `"Value: ", 42` of the documentation   *)
(* and the one-argument lists, with any C up to the required capacity and  *)
(* CapSlack bytes beyond it                                                *)
ValueArgs ==
    <<ArgumentWrapper_new("str", <<86, 97, 108, 117, 101, 58, Space>>),
      ArgumentWrapper_new("i16", 42)>>

ExplicitCalls ==
    UNION {{[ws |-> ws, cap |-> cap] : cap \in 0..(total_capacity(ws) + CapSlack)} :
           ws \in {ValueArgs} \cup {<<w>> : w \in ListWrappers}}

(* compile_args!(&inner) and compile_args!("[..", &inner): a nested        *)
(* CompileArgs<CAP> as format returns it, its len bytes followed by zeros  *)
(* up to any CAP from len to len + CapSlack                                *)
NestedStrs == {<<LatinI>>, <<SharpS, Bomb>>}

NestedArgs ==
    {Writer(as_bytes(s) \o [i \in 1..k |-> 0], str_len(s)) :
        s \in NestedStrs, k \in 0..CapSlack}

NestedCalls ==
    {[ws |-> ws, cap |-> total_capacity(ws)] :
        ws \in {<<ArgumentWrapper_new_nested(a)>> : a \in NestedArgs}
               \cup {<<ArgumentWrapper_new("str", <<Bracket, SharpS>>),
                       ArgumentWrapper_new_nested(a)>> : a \in NestedArgs}}

Calls == MacroCalls \cup FormatCalls \cup ScenarioCalls \cup NestedCalls

(* compile_args!(value => clip..(clip_at, using)[.pad_..(..)][, tail]) and *)
(* compile_args!(Ascii::new(s)) before the constructors and the capacity   *)
(* are evaluated: the type of the value, its string, the arguments of the  *)
(* clip (an Option), the pad (an Option) and a literal that follows        *)
(* (empty: none); overflow_checks is the setting of the build              *)
Expr(ty, s, clip_args, pad, tail, overflow_checks) ==
    [ty |-> ty, s |-> s, clip |-> clip_args, pad |-> pad, tail |-> tail,
     overflow_checks |-> overflow_checks]

TailArgs(e) == IF e.tail = <<>> THEN <<>> ELSE <<ArgumentWrapper_new("str", e.tail)>>

(* the string of the test ascii_panic, and strings longer than CLIP_LEN    *)
TestNonAscii == <<116, 101, SharpS, Ellipsis>>
LongAscii == [i \in 1..(CLIP_LEN + 1) |-> LatinI]

(* clips of any width from 0, with an ASCII or a non-ASCII replacement *)
ClipExprs ==
    {Expr(ty, s, Some(StrFormat(n, r)), None, <<>>, checks) :
        ty \in StringTypes, s \in {<<LatinI>>, <<LatinI, SharpS>>},
        n \in 0..1, r \in {<<Dash>>, <<Ellipsis>>}, checks \in BOOLEAN}

AsciiNewExprs ==
    {Expr("Ascii", s, None, None, <<>>, TRUE) :
        s \in {<<LatinI, Bracket>>, <<SharpS>>, TestNonAscii, LongAscii,
               LongAscii \o <<SharpS, LatinI, Bomb>>}}

(* capacities at the two sides of USIZE_MAX: the product of clip, its sum, *)
(* the sum of clip_ascii and the sum over the arguments, in a build with   *)
(* and in one without overflow checks; the product of a pad with them      *)
Quarter == (USIZE_MAX + 1) \div 4

WideExprs ==
    {Expr("str", <<LatinI>>, Some(StrFormat(n, r)), None, tail, checks) :
        n \in {Quarter - 1, Quarter, Quarter + 1},
        r \in {<<>>, <<Ellipsis>>, <<Ellipsis, Dash>>},
        tail \in {<<>>, <<LatinI>>, <<LatinI, SharpS>>, <<LatinI, SharpS, LatinI>>},
        checks \in BOOLEAN}
    \cup {Expr("Ascii", <<LatinI>>, Some(StrFormat(USIZE_MAX, r)), None, <<>>, checks) :
              r \in {<<>>, <<Dash>>}, checks \in BOOLEAN}
    \cup {Expr(ty, <<LatinI>>, Some(StrFormat(1, <<>>)), Some(Pad("Left", w, Bomb)), <<>>,
                TRUE) :
              ty \in StringTypes, w \in {2, Quarter}}

Exprs == ClipExprs \cup AsciiNewExprs \cup WideExprs

----------------------------------------------------------------------------
(* CompileArgs::format and format_arg as a state machine: one step per     *)
(* append to the buffer.                                                   *)

(* a call with the capacity the macro infers or the caller of format      *)
(* chooses starts in format; a call with a declared capacity starts with   *)
(* the assertion on it                                                     *)
Init ==
    /\ \/ \E call \in Calls :
             /\ wrappers = call.ws
             /\ CAP = call.cap
             /\ declared = None
             /\ expr = None
             /\ pc = "format"
       \/ \E call \in ExplicitCalls :
             /\ wrappers = call.ws
             /\ CAP = call.cap
             /\ declared = Some(call.cap)
             /\ expr = None
             /\ pc = "assert_capacity"
       \/ \E e \in Exprs :
             /\ wrappers = IF e.ty = "Ascii" THEN <<>>
                           ELSE <<ArgumentWrapper_new("str", e.s)>> \o TailArgs(e)
             /\ CAP = 0
             /\ declared = None
             /\ expr = Some(e)
             /\ pc = IF e.ty = "Ascii" THEN "ascii_new" ELSE "clip"
    /\ arguments = [i \in 1..Len(wrappers) |-> into_argument(wrappers[i])]
    /\ buffer = CompileArgs_new(CAP).buffer
    /\ len = CompileArgs_new(CAP).len
    /\ arg_i = 0
    /\ pad_before = 0
    /\ pad_after = None
    /\ count = 0
    /\ arg_start = 0
    /\ panic_message = None

self == Writer(buffer, len)

(* arguments[arg_i] of the code *)
arg == arguments[arg_i + 1]

AtInner == pc = "pad_before" /\ ~(count < pad_before)

(* the append the code makes next, as the writer it returns *)
Pending ==
    CASE pc = "pad_before" /\ count < pad_before ->
            write_char(self, Unwrap(arg.pad).using)
      [] AtInner /\ arg.inner.kind = "Str" ->
            IF IsSome(arg.inner.fmt)
            THEN LET clipped == ClippedStr_new(arg.inner.s, Unwrap(arg.inner.fmt).clip_at)
                 IN  IF clipped.tag = "Panic" THEN Panicked
                     ELSE write_str_bytes(self, clipped.bytes)
            ELSE write_str_bytes(self, as_bytes(arg.inner.s))
      [] AtInner /\ arg.inner.kind = "Char" -> write_char(self, arg.inner.c)
      [] AtInner /\ arg.inner.kind = "Int" ->
            IF arg.inner.value < 0 THEN write_char(self, Dash)
            ELSE write_u128(self, unsigned_abs(arg.inner.value))
      [] AtInner /\ arg.inner.kind = "UnsignedInt" -> write_u128(self, arg.inner.value)
      [] pc = "clip_with" -> write_str_bytes(self, as_bytes(Unwrap(arg.inner.fmt).using))
      [] pc = "digits" -> write_u128(self, unsigned_abs(arg.inner.value))
      [] pc = "pad_after" /\ IsSome(pad_after) /\ count < Unwrap(pad_after)[1] ->
            write_char(self, Unwrap(pad_after)[2])
      [] OTHER -> self

Commit(w) == buffer' = w.buffer /\ len' = w.len

Frame == UNCHANGED <<wrappers, arguments, CAP, declared, panic_message, expr>>

(* a faulty capacity arm of compile_args!: the assertion is left out *)
AssertCapacity_unchecked ==
    /\ pc = "assert_capacity"
    /\ pc' = "format"
    /\ UNCHANGED <<wrappers, arguments, CAP, declared, buffer, len, arg_i,
                   pad_before, pad_after, count, arg_start, panic_message, expr>>

(* compile_args!(capacity: ..): the constant block asserts the capacity;   *)
(* its panic is a compilation error, and format is not run                 *)
AssertCapacity ==
    /\ pc = "assert_capacity"
    /\ LET required_capacity == total_capacity(wrappers)
       IN  /\ panic_message' = assert_capacity(CAP, required_capacity)
           /\ pc' = IF IsSome(assert_capacity(CAP, required_capacity))
                    THEN "compile_error" ELSE "format"
    /\ UNCHANGED <<wrappers, arguments, CAP, declared, buffer, len, arg_i,
                   pad_before, pad_after, count, arg_start, expr>>

OverflowError == [message |-> "arithmetic overflow"]

(* Ascii::new(s) of the argument: its panic in a constant expression is a  *)
(* compilation error                                                       *)
AsciiNew ==
    /\ pc = "ascii_new"
    /\ \E ascii \in {Ascii_new(Unwrap(expr).s)} :
          IF IsSome(ascii.panic)
          THEN /\ panic_message' = ascii.panic
               /\ pc' = "compile_error"
               /\ UNCHANGED <<wrappers, arguments>>
          ELSE \E ws \in {<<ArgumentWrapper_new("Ascii", ascii.value)>>
                           \o TailArgs(Unwrap(expr))} :
                  /\ wrappers' = ws
                  /\ arguments' = [i \in 1..Len(ws) |-> into_argument(ws[i])]
                  /\ pc' = IF IsSome(Unwrap(expr).clip) THEN "clip" ELSE "const_capacity"
                  /\ UNCHANGED panic_message
    /\ UNCHANGED <<CAP, declared, buffer, len, arg_i, pad_before, pad_after, count,
                   arg_start, expr>>

(* the format expression of the call: clip(..) or clip_ascii(..), then     *)
(* pad_..(..) on the format it returns                                     *)
clip_expr(e) ==
    IF e.ty = "Ascii"
    THEN const_clip_ascii(e.overflow_checks, Unwrap(e.clip).clip_at, Unwrap(e.clip).using)
    ELSE const_clip(e.overflow_checks, Unwrap(e.clip).clip_at, Unwrap(e.clip).using)

pad_expr(e, f) ==
    IF IsSome(e.pad)
    THEN with_pad(f, Unwrap(e.pad).align, Unwrap(e.pad).width, Unwrap(e.pad).using)
    ELSE f

(* the format expression is evaluated, and with_fmt attaches the format *)
Clip ==
    /\ pc = "clip"
    /\ \E built \in {clip_expr(Unwrap(expr))} :
          IF built.tag = "Ok"
          THEN \E ws \in {[wrappers EXCEPT
                               ![1] = with_fmt(@, pad_expr(Unwrap(expr), built.fmt))]} :
                  /\ wrappers' = ws
                  /\ arguments' = [i \in 1..Len(ws) |-> into_argument(ws[i])]
                  /\ pc' = "const_capacity"
                  /\ UNCHANGED panic_message
          ELSE /\ panic_message' = Some(IF built.tag = "Panic" THEN built.message
                                        ELSE OverflowError)
               /\ pc' = "compile_error"
               /\ UNCHANGED <<wrappers, arguments>>
    /\ UNCHANGED <<CAP, declared, buffer, len, arg_i, pad_before, pad_after, count,
                   arg_start, expr>>

(* const __CAPACITY: usize = the total capacity; format then starts with   *)
(* CompileArgs::<__CAPACITY>::new()                                        *)
ConstCapacity ==
    /\ pc = "const_capacity"
    /\ \E total \in {const_total_capacity(Unwrap(expr).overflow_checks, wrappers)} :
          IF total = Overflow
          THEN /\ panic_message' = Some(OverflowError)
               /\ pc' = "compile_error"
               /\ UNCHANGED <<CAP, buffer, len>>
          ELSE /\ CAP' = total
               /\ buffer' = CompileArgs_new(total).buffer
               /\ len' = CompileArgs_new(total).len
               /\ pc' = "format"
               /\ UNCHANGED panic_message
    /\ UNCHANGED <<wrappers, arguments, declared, arg_i, pad_before, pad_after, count,
                   arg_start, expr>>

(* format: the loop takes the next argument; format_arg computes its pad *)
NextArg ==
    /\ pc = "format"
    /\ arg_i < Len(arguments)
    /\ LET non_padded_len == inner_formatted_len(arg.inner)
           padded == IsSome(arg.pad) /\ Unwrap(arg.pad).width > non_padded_len.chars
           padding == compute_padding(Unwrap(arg.pad), non_padded_len.chars)
       IN  /\ pad_before' = IF padded THEN padding[1] ELSE 0
           /\ pad_after' = IF padded THEN Some(<<padding[2], Unwrap(arg.pad).using>>)
                           ELSE None
    /\ count' = 0
    /\ arg_start' = len
    /\ pc' = "pad_before"
    /\ UNCHANGED <<buffer, len, arg_i>>
    /\ Frame

(* format_arg: one fill char before the content *)
WritePadBefore ==
    /\ pc = "pad_before"
    /\ count < pad_before
    /\ ~Pending.panicked
    /\ Commit(Pending)
    /\ count' = count + 1
    /\ UNCHANGED <<arg_i, pc, pad_before, pad_after, arg_start>>
    /\ Frame

(* write_str: the whole string (no format, or ClippedStr::Full) *)
WriteStrFull ==
    /\ AtInner
    /\ arg.inner.kind = "Str"
    /\ IF IsSome(arg.inner.fmt)
       THEN ClippedStr_new(arg.inner.s, Unwrap(arg.inner.fmt).clip_at).tag = "Full"
       ELSE TRUE
    /\ ~Pending.panicked
    /\ Commit(Pending)
    /\ pc' = "pad_after"
    /\ count' = 0
    /\ UNCHANGED <<arg_i, pad_before, pad_after, arg_start>>
    /\ Frame

(* write_str: the clipped prefix (ClippedStr::Clipped) *)
WriteStrClipped ==
    /\ AtInner
    /\ arg.inner.kind = "Str"
    /\ IsSome(arg.inner.fmt)
    /\ ClippedStr_new(arg.inner.s, Unwrap(arg.inner.fmt).clip_at).tag = "Clipped"
    /\ ~Pending.panicked
    /\ Commit(Pending)
    /\ pc' = "clip_with"
    /\ UNCHANGED <<arg_i, pad_before, pad_after, count, arg_start>>
    /\ Frame

(* write_str: the replacement after a clipped prefix *)
WriteClipWith ==
    /\ pc = "clip_with"
    /\ ~Pending.panicked
    /\ Commit(Pending)
    /\ pc' = "pad_after"
    /\ count' = 0
    /\ UNCHANGED <<arg_i, pad_before, pad_after, arg_start>>
    /\ Frame

(* write_char of a char argument *)
WriteChar ==
    /\ AtInner
    /\ arg.inner.kind = "Char"
    /\ ~Pending.panicked
    /\ Commit(Pending)
    /\ pc' = "pad_after"
    /\ count' = 0
    /\ UNCHANGED <<arg_i, pad_before, pad_after, arg_start>>
    /\ Frame

(* write_i128: the sign of a negative value *)
WriteSign ==
    /\ AtInner
    /\ arg.inner.kind = "Int"
    /\ arg.inner.value < 0
    /\ ~Pending.panicked
    /\ Commit(Pending)
    /\ pc' = "digits"
    /\ UNCHANGED <<arg_i, pad_before, pad_after, count, arg_start>>
    /\ Frame

(* write_i128: the digits, after the sign if any *)
WriteInt ==
    /\ \/ AtInner /\ arg.inner.kind = "Int" /\ ~(arg.inner.value < 0)
       \/ pc = "digits"
    /\ ~Pending.panicked
    /\ Commit(Pending)
    /\ pc' = "pad_after"
    /\ count' = 0
    /\ UNCHANGED <<arg_i, pad_before, pad_after, arg_start>>
    /\ Frame

(* write_u128 of an unsigned argument *)
WriteUnsignedInt ==
    /\ AtInner
    /\ arg.inner.kind = "UnsignedInt"
    /\ ~Pending.panicked
    /\ Commit(Pending)
    /\ pc' = "pad_after"
    /\ count' = 0
    /\ UNCHANGED <<arg_i, pad_before, pad_after, arg_start>>
    /\ Frame

(* format_arg: one fill char after the content *)
WritePadAfter ==
    /\ pc = "pad_after"
    /\ IsSome(pad_after)
    /\ count < Unwrap(pad_after)[1]
    /\ ~Pending.panicked
    /\ Commit(Pending)
    /\ count' = count + 1
    /\ UNCHANGED <<arg_i, pc, pad_before, pad_after, arg_start>>
    /\ Frame

(* a faulty format: arg_i is not advanced after format_arg returns *)
EndArg_stuck ==
    /\ pc = "pad_after"
    /\ ~(IsSome(pad_after) /\ count < Unwrap(pad_after)[1])
    /\ arg_i' = arg_i
    /\ pc' = "format"
    /\ UNCHANGED <<buffer, len, pad_before, pad_after, count, arg_start>>
    /\ Frame

(* format_arg returns; format advances arg_i *)
EndArg ==
    /\ pc = "pad_after"
    /\ ~(IsSome(pad_after) /\ count < Unwrap(pad_after)[1])
    /\ arg_i' = arg_i + 1
    /\ pc' = "format"
    /\ UNCHANGED <<buffer, len, pad_before, pad_after, count, arg_start>>
    /\ Frame

(* format returns the buffer *)
Return ==
    /\ pc = "format"
    /\ ~(arg_i < Len(arguments))
    /\ pc' = "done"
    /\ UNCHANGED <<buffer, len, arg_i, pad_before, pad_after, count, arg_start>>
    /\ Frame

(* an append indexes the buffer out of bounds: the call panics *)
Panic ==
    /\ pc \in {"pad_before", "clip_with", "digits", "pad_after"}
    /\ Pending.panicked
    /\ pc' = "panicked"
    /\ UNCHANGED <<buffer, len, arg_i, pad_before, pad_after, count, arg_start>>
    /\ Frame

Next ==
    \/ AsciiNew
    \/ Clip
    \/ ConstCapacity
    \/ AssertCapacity
    \/ NextArg
    \/ WritePadBefore
    \/ WriteStrFull
    \/ WriteStrClipped
    \/ WriteClipWith
    \/ WriteChar
    \/ WriteSign
    \/ WriteInt
    \/ WriteUnsignedInt
    \/ WritePadAfter
    \/ EndArg
    \/ Return
    \/ Panic

Spec == Init /\ [][Next]_vars

----------------------------------------------------------------------------
(* What the properties observe, and the reference they compare with.       *)

(* as_str(): the bytes written so far *)
Written == as_str(self)

(* format_arg has returned for arguments[arg_i - 1] of the code, which is  *)
(* DoneArg; its bytes are ArgOut                                           *)
ArgDone == pc = "format" /\ arg_i >= 1
DoneArg == arguments[arg_i]
DoneWrapper == wrappers[arg_i]
ArgOut == SubSeq(buffer, arg_start + 1, len)

(* the content of the current argument has just been written: its bytes    *)
(* follow the pad_before fill chars                                        *)
ContentDone == pc = "pad_after" /\ count = 0
ContentStart ==
    arg_start + (IF IsSome(pad_after) THEN pad_before * len_utf8(Unwrap(pad_after)[2]) ELSE 0)
Content == SubSeq(buffer, ContentStart + 1, len)

(* the number of scalars in a byte sequence: the bytes that are not        *)
(* continuation bytes 10xxxxxx                                             *)
NumScalars(bytes) == Cardinality({i \in 1..Len(bytes) : bytes[i] < 128 \/ bytes[i] >= 192})

(* well-formed UTF-8 (Unicode 15, table 3-7) *)
InRange(b, lo, hi) == lo <= b /\ b <= hi

RECURSIVE ValidUtf8(_)
ValidUtf8(bytes) ==
    IF bytes = <<>> THEN TRUE
    ELSE LET b1 == bytes[1]
             n == Len(bytes)
         IN  IF b1 < 128 THEN ValidUtf8(Tail(bytes))
             ELSE IF InRange(b1, 194, 223)
             THEN n >= 2 /\ InRange(bytes[2], 128, 191) /\ ValidUtf8(SubSeq(bytes, 3, n))
             ELSE IF InRange(b1, 224, 239)
             THEN /\ n >= 3
                  /\ InRange(bytes[2], IF b1 = 224 THEN 160 ELSE 128,
                                       IF b1 = 237 THEN 159 ELSE 191)
                  /\ InRange(bytes[3], 128, 191)
                  /\ ValidUtf8(SubSeq(bytes, 4, n))
             ELSE IF InRange(b1, 240, 244)
             THEN /\ n >= 4
                  /\ InRange(bytes[2], IF b1 = 240 THEN 144 ELSE 128,
                                       IF b1 = 244 THEN 143 ELSE 191)
                  /\ InRange(bytes[3], 128, 191)
                  /\ InRange(bytes[4], 128, 191)
                  /\ ValidUtf8(SubSeq(bytes, 5, n))
             ELSE FALSE

(* the decimal digits of a natural number, most significant first *)
RECURSIVE Decimal(_)
Decimal(v) == IF v < 10 THEN <<v>> ELSE Append(Decimal(v \div 10), v % 10)

(* the chars of the canonical base-10 representation of an integer *)
DecimalChars(v) ==
    LET digits == Decimal(IF v < 0 THEN -v ELSE v)
    IN  (IF v < 0 THEN <<Dash>> ELSE <<>>) \o [i \in 1..Len(digits) |-> 48 + digits[i]]

(* the chars an argument stands for before padding: the string (its first  *)
(* clip_at chars and the replacement when it has more), the char, or the   *)
(* decimal representation                                                  *)
RefChars(inner) ==
    CASE inner.kind = "Str" ->
            IF IsSome(inner.fmt) /\ Unwrap(inner.fmt).clip_at < Len(inner.s)
            THEN SubSeq(inner.s, 1, Unwrap(inner.fmt).clip_at) \o Unwrap(inner.fmt).using
            ELSE inner.s
      [] inner.kind = "Char" -> <<inner.c>>
      [] OTHER -> DecimalChars(inner.value)

(* the fill chars before and after, by alignment *)
Deficit(a) ==
    IF IsSome(a.pad) /\ Unwrap(a.pad).width > Len(RefChars(a.inner))
    THEN Unwrap(a.pad).width - Len(RefChars(a.inner)) ELSE 0

RefBefore(a) ==
    IF Deficit(a) = 0 THEN 0
    ELSE CASE Unwrap(a.pad).align = "Left" -> 0
           [] Unwrap(a.pad).align = "Right" -> Deficit(a)
           [] OTHER -> Deficit(a) \div 2

RefAfter(a) == Deficit(a) - RefBefore(a)

FillChars(a, n) == IF n = 0 THEN <<>> ELSE Repeat(Unwrap(a.pad).using, n)

(* the formatted form of an argument: before-fill, content, after-fill *)
RefFormatted(a) ==
    as_bytes(FillChars(a, RefBefore(a)) \o RefChars(a.inner) \o FillChars(a, RefAfter(a)))

(* the call of a format expression with the capacities computed in the    *)
(* integers, without a word width                                          *)
ExprFmt(e) ==
    pad_expr(e, IF e.ty = "Ascii"
                THEN clip_ascii(Unwrap(e.clip).clip_at, Unwrap(e.clip).using)
                ELSE clip(Unwrap(e.clip).clip_at, Unwrap(e.clip).using))

ExprWrappers(e) ==
    <<IF IsSome(e.clip) THEN with_fmt(ArgumentWrapper_new(e.ty, e.s), ExprFmt(e))
      ELSE ArgumentWrapper_new(e.ty, e.s)>> \o TailArgs(e)

ExactTotal(e) == total_capacity(ExprWrappers(e))

(* the capacity of the call fits in usize: no step of its computation      *)
(* exceeds the total, so none overflows                                    *)
CapacityInRange == ~IsSome(expr) \/ ExactTotal(Unwrap(expr)) <= USIZE_MAX

----------------------------------------------------------------------------
(* Properties.                                                             *)

(* C1: the capacity of a format is at least the number of bytes format_arg *)
(* appends for any value of that format: a call whose CAP is at least the  *)
(* inferred total capacity never indexes the buffer out of bounds, and the *)
(* bytes appended for an argument with a format never exceed               *)
(* Fmt::capacity() of that format.  (For the formats whose capacity fits   *)
(* in usize; C25 is about the others.)                                     *)
C1_CapacityDominates ==
    CapacityInRange =>
        /\ CAP >= total_capacity(wrappers) => pc # "panicked"
        /\ (ArgDone /\ IsSome(DoneWrapper.fmt)) =>
                Len(ArgOut) <= capacity(Unwrap(DoneWrapper.fmt))

C1_Witness ==
    /\ pc = "done"
    /\ Len(wrappers) = 1
    /\ CAP = total_capacity(wrappers)
    /\ arguments[1].inner.kind = "Str"
    /\ IsSome(arguments[1].inner.fmt)
    /\ Unwrap(arguments[1].inner.fmt).clip_at < Len(arguments[1].inner.s)
    /\ IsSome(pad_after)
    /\ len_utf8(Unwrap(pad_after)[2]) = 4
    /\ len = CAP

(* the values that decide whether a format attains its capacity: a string  *)
(* is formatted as its first clip_at + 1 chars are, an integer as the      *)
(* values with as many digits are                                          *)
Candidates(f) ==
    CASE f.ty = "str" -> SeqsUpTo({LatinI, SharpS, DoubleR, Bomb}, f.details.clip_at + 1)
      [] f.ty = "Ascii" -> SeqsUpTo({LatinI, Bracket}, f.details.clip_at + 1)
      [] OTHER -> Values(f.ty)

(* some value of the format's type is formatted to exactly capacity() bytes *)
Attained(f) ==
    \E v \in Candidates(f) :
        formatted_len(into_argument(with_fmt(ArgumentWrapper_new(f.ty, v), f))) = capacity(f)

(* one call site per format: the macro call with the empty string, the     *)
(* char 'i' or the integer 0                                               *)
Probe ==
    /\ pc = "format"
    /\ arg_i = 0
    /\ Len(wrappers) = 1
    /\ IsSome(wrappers[1].fmt)
    /\ CASE wrappers[1].ty \in StringTypes -> wrappers[1].str = <<>>
         [] wrappers[1].ty = "char" -> wrappers[1].value = LatinI
         [] OTHER -> wrappers[1].value = 0

ProbeFmt == Unwrap(wrappers[1].fmt)

C3_FormattedLenIsWritten ==
    /\ ArgDone => len - arg_start = formatted_len(DoneArg)
    /\ pc = "done" =>
            len = SumSeq([i \in 1..Len(arguments) |-> formatted_len(arguments[i])])

C3_Witness ==
    /\ pc = "done"
    /\ Len(arguments) >= 2
    /\ \E i \in 1..Len(arguments) :
          /\ arguments[i].inner.kind = "Str"
          /\ IsSome(arguments[i].inner.fmt)
          /\ IsSome(arguments[i].pad)
          /\ Deficit(arguments[i]) > 0
    /\ len = SumSeq([i \in 1..Len(arguments) |-> formatted_len(arguments[i])])

(* C4: whenever format is between arguments, and when it returns, the      *)
(* bytes written are the concatenation, in input order, of the formatted   *)
(* form (before-fill, content, after-fill) of the arguments done so far.   *)
C4_ConcatenationInOrder ==
    pc \in {"format", "done"} =>
        Written = Concat([i \in 1..arg_i |-> RefFormatted(arguments[i])])

C4_Witness ==
    /\ pc = "done"
    /\ Len(arguments) >= 2
    /\ RefFormatted(arguments[1]) # RefFormatted(arguments[2])
    /\ RefFormatted(arguments[1]) # <<>>
    /\ RefFormatted(arguments[2]) # <<>>
    /\ Written = RefFormatted(arguments[1]) \o RefFormatted(arguments[2])

(* C5: in every state of a format call len <= CAP and buffer[0..len] is    *)
(* well-formed UTF-8.                                                      *)
C5_LenBoundedValidUtf8 == len <= CAP /\ ValidUtf8(Written)

C5_Witness ==
    /\ pc = "clip_with"
    /\ len > arg_start
    /\ buffer[len] >= 128
    /\ arg.inner.s[Unwrap(arg.inner.fmt).clip_at + 1] >= 128
    /\ ValidUtf8(Written)

(* C6: when clip_at is at least the number of chars of the string, the     *)
(* content written is the string itself, without the replacement.          *)
C6_ClipRoundTrip ==
    (/\ ContentDone
     /\ arg.inner.kind = "Str"
     /\ IsSome(arg.inner.fmt)
     /\ Unwrap(arg.inner.fmt).clip_at >= Len(arg.inner.s))
    => Content = as_bytes(arg.inner.s)

C6_Witness ==
    /\ ContentDone
    /\ arg.inner.kind = "Str"
    /\ IsSome(arg.inner.fmt)
    /\ Unwrap(arg.inner.fmt).clip_at = Len(arg.inner.s)
    /\ Unwrap(arg.inner.fmt).using # <<>>
    /\ \E i \in 1..Len(arg.inner.s) : arg.inner.s[i] >= 128
    /\ Content = as_bytes(arg.inner.s)

(* C7: when the string has more than clip_at chars, the content written is *)
(* its first clip_at chars followed by the replacement, clip_at +          *)
(* count_chars(replacement) chars in all.                                  *)
C7_ClipTruncation ==
    (/\ ContentDone
     /\ arg.inner.kind = "Str"
     /\ IsSome(arg.inner.fmt)
     /\ Unwrap(arg.inner.fmt).clip_at < Len(arg.inner.s))
    => LET f == Unwrap(arg.inner.fmt)
       IN  /\ Content = as_bytes(SubSeq(arg.inner.s, 1, f.clip_at)) \o as_bytes(f.using)
           /\ NumScalars(Content) = f.clip_at + Len(f.using)

C7_Witness ==
    /\ ContentDone
    /\ arg.inner.kind = "Str"
    /\ IsSome(arg.inner.fmt)
    /\ Unwrap(arg.inner.fmt).clip_at < Len(arg.inner.s)
    /\ arg.inner.s[1] = Bomb
    /\ Unwrap(arg.inner.fmt).using = <<Ellipsis>>
    /\ NumScalars(Content) = Unwrap(arg.inner.fmt).clip_at + 1

(* C8: when the content has at least pad.width chars, the bytes appended   *)
(* for the argument are the content alone, for every alignment.            *)
C8_PaddingNeverTruncates ==
    (/\ ArgDone
     /\ IsSome(DoneArg.pad)
     /\ Len(RefChars(DoneArg.inner)) >= Unwrap(DoneArg.pad).width)
    => ArgOut = as_bytes(RefChars(DoneArg.inner))

C8_Witness ==
    /\ ArgDone
    /\ IsSome(DoneArg.pad)
    /\ Unwrap(DoneArg.pad).width >= 2
    /\ Len(RefChars(DoneArg.inner)) = Unwrap(DoneArg.pad).width
    /\ DoneArg.inner.kind = "Str"
    /\ IsSome(DoneArg.inner.fmt)
    /\ Unwrap(DoneArg.inner.fmt).clip_at < Unwrap(DoneArg.pad).width
    /\ ArgOut = as_bytes(RefChars(DoneArg.inner))

(* C9: when the content has c < pad.width chars, the bytes appended are    *)
(* the content with width - c fill chars around it: width chars, content   *)
(* bytes + (width - c) * len_utf8(fill) bytes.                             *)
C9_PaddingFill ==
    (/\ ArgDone
     /\ IsSome(DoneArg.pad)
     /\ Len(RefChars(DoneArg.inner)) < Unwrap(DoneArg.pad).width)
    => LET p == Unwrap(DoneArg.pad)
           content == RefChars(DoneArg.inner)
           d == p.width - Len(content)
       IN  /\ NumScalars(ArgOut) = p.width
           /\ Len(ArgOut) = str_len(content) + d * len_utf8(p.using)
           /\ \E b \in 0..d :
                 ArgOut = as_bytes(Repeat(p.using, b) \o content \o Repeat(p.using, d - b))

C9_Witness ==
    /\ ArgDone
    /\ IsSome(DoneArg.pad)
    /\ Unwrap(DoneArg.pad).using = DoubleR
    /\ Unwrap(DoneArg.pad).align = "Center"
    /\ Unwrap(DoneArg.pad).width - Len(RefChars(DoneArg.inner)) = 3
    /\ NumScalars(ArgOut) = Unwrap(DoneArg.pad).width
    /\ Len(ArgOut) > NumScalars(ArgOut)

(* C10: while an argument with deficit = width - content chars > 0 is      *)
(* formatted, the fill counts are (0, deficit) for Left, (deficit, 0) for  *)
(* Right and (deficit / 2 rounded down, the rest) for Center.              *)
C10_PaddingPlacement ==
    (/\ pc \in {"pad_before", "clip_with", "digits", "pad_after"}
     /\ IsSome(arg.pad)
     /\ Unwrap(arg.pad).width > Len(RefChars(arg.inner)))
    => LET deficit == Unwrap(arg.pad).width - Len(RefChars(arg.inner))
           align == Unwrap(arg.pad).align
       IN  /\ IsSome(pad_after)
           /\ align = "Left" => pad_before = 0 /\ Unwrap(pad_after)[1] = deficit
           /\ align = "Right" => pad_before = deficit /\ Unwrap(pad_after)[1] = 0
           /\ align = "Center" =>
                 /\ pad_before = deficit \div 2
                 /\ Unwrap(pad_after)[1] = deficit - pad_before

C10_Witness ==
    /\ pc = "pad_after"
    /\ IsSome(arg.pad)
    /\ Unwrap(arg.pad).align = "Center"
    /\ Unwrap(arg.pad).width - Len(RefChars(arg.inner)) = 3
    /\ pad_before = 1
    /\ Unwrap(pad_after)[1] = 2
    /\ count = 2

(* the call `value => fmt::<u16>().pad_..(4, '0')` has returned *)
PaddedNumberDone(align, value) ==
    /\ pc = "done"
    /\ Len(wrappers) = 1
    /\ wrappers[1].ty = "u16"
    /\ wrappers[1].value = value
    /\ IsSome(wrappers[1].fmt)
    /\ Unwrap(wrappers[1].fmt).pad = Some(Pad(align, 4, Zero))

(* C11 as stated: with start alignment, width 4 and fill '0' the number 42 *)
(* is formatted as "0042", and 19999 as "19999".                           *)
C11_StartAlignedScenario ==
    /\ PaddedNumberDone("Left", 42) => Written = <<48, 48, 52, 50>>
    /\ PaddedNumberDone("Left", 19999) => Written = <<49, 57, 57, 57, 57>>

(* C11, amended: it is end alignment (pad_right, the fill before the       *)
(* content) that formats 42 as "0042"; start alignment (pad_left) gives    *)
(* "4200"; 19999 is formatted as "19999" with either.                      *)
C11_EndAlignedScenario ==
    /\ PaddedNumberDone("Right", 42) => Written = <<48, 48, 52, 50>>
    /\ PaddedNumberDone("Left", 42) => Written = <<52, 50, 48, 48>>
    /\ \A align \in {"Left", "Right"} :
          PaddedNumberDone(align, 19999) => Written = <<49, 57, 57, 57, 57>>

C11_Witness ==
    /\ PaddedNumberDone("Right", 42)
    /\ Written = <<48, 48, 52, 50>>
    /\ CAP = 5

(* C12: the estimated length of an integer argument, in bytes and in       *)
(* chars, is the length of its canonical base-10 string: a '-' for a       *)
(* negative value and the decimal digits of its absolute value, one digit  *)
(* for 0.  Without a pad this is the formatted_len of the argument.        *)
C12_IntLengthIsDecimalLength ==
    (/\ pc = "pad_before"
     /\ arg.inner.kind \in {"Int", "UnsignedInt"})
    => /\ inner_formatted_len(arg.inner) = both(Len(DecimalChars(arg.inner.value)))
       /\ ~IsSome(arg.pad) => formatted_len(arg) = Len(DecimalChars(arg.inner.value))

C12_Witness ==
    /\ pc = "pad_before"
    /\ arg.inner.kind = "Int"
    /\ arg.inner.value = -10000
    /\ inner_formatted_len(arg.inner) = both(6)

(* the fill chars format_arg has written before the content *)
FillBefore ==
    IF pad_before = 0 THEN <<>> ELSE as_bytes(Repeat(Unwrap(arg.pad).using, pad_before))

(* C13: write_i128 / write_u128 append exactly the canonical base-10       *)
(* representation of the value: '-' for a negative value, then the digits  *)
(* of its absolute value, most significant first, log_10_ceil of them;     *)
(* the bytes before old_len and from new_len on are left as they were.     *)
(* The call `2, " + ", 2, " = ", 2 + 2` returns "2 + 2 = 4" in 9 bytes.    *)
C13_IntWrittenAsDecimal ==
    /\ (ContentDone /\ arg.inner.kind \in {"Int", "UnsignedInt"}) =>
          LET v == arg.inner.value
              sign == IF v < 0 THEN 1 ELSE 0
          IN  /\ Content = DecimalChars(v)
              /\ len - (ContentStart + sign) = log_10_ceil(unsigned_abs(v))
              /\ v # 0 => buffer[ContentStart + sign + 1] # Zero
              /\ SubSeq(buffer, 1, ContentStart) =
                    Concat([i \in 1..arg_i |-> RefFormatted(arguments[i])]) \o FillBefore
              /\ \A i \in (len + 1)..CAP : buffer[i] = 0
    /\ (pc = "done" /\ wrappers = SumArgs) =>
          /\ Written = <<50, 32, 43, 32, 50, 32, 61, 32, 52>>
          /\ CAP = 9

C13_Witness ==
    /\ ContentDone
    /\ arg_i = 1
    /\ arg.inner.kind = "Int"
    /\ arg.inner.value = -128
    /\ ContentStart > 0
    /\ len < CAP
    /\ Content = <<45, 49, 50, 56>>

(* the formatted form of the whole argument list *)
RefOutput == Concat([i \in 1..Len(arguments) |-> RefFormatted(arguments[i])])

(* C14: with a declared capacity C smaller than the capacity the arguments *)
(* require, the call fails in the assertion, before format runs and any    *)
(* byte is written, and the failure carries both C and the required        *)
(* capacity; with C >= required the assertion passes and formatting        *)
(* proceeds without failing.                                               *)
C14_DeclaredCapacityAsserted ==
    IsSome(declared) =>
        LET required == SumSeq([i \in 1..Len(wrappers) |-> arg_capacity(wrappers[i])])
        IN  /\ CAP = Unwrap(declared)
            /\ CAP < required =>
                  /\ pc \in {"assert_capacity", "compile_error"}
                  /\ len = 0 /\ arg_i = 0
                  /\ \A i \in 1..CAP : buffer[i] = 0
                  /\ pc = "compile_error" =>
                        panic_message = Some([declared |-> CAP, required |-> required])
            /\ CAP >= required =>
                  /\ pc \notin {"compile_error", "panicked"}
                  /\ panic_message = None
                  /\ pc = "done" => Written = RefOutput

C14_Witness ==
    /\ pc = "compile_error"
    /\ wrappers = ValueArgs
    /\ declared = Some(4)
    /\ panic_message = Some([declared |-> 4, required |-> 9])
    /\ len = 0

(* C15: a format call never stores a byte outside the CAP bytes of the     *)
(* buffer, and no append ends beyond CAP; the call panics only when the    *)
(* arguments need more than CAP bytes; it returns only when they need at   *)
(* most CAP bytes, and the buffer returned holds the whole formatted       *)
(* output.                                                                 *)
C15_OverflowAborts ==
    /\ Len(buffer) = CAP
    /\ len <= CAP
    /\ pc = "panicked" => Len(RefOutput) > CAP
    /\ pc = "done" => Len(RefOutput) <= CAP /\ Written = RefOutput

C15_Witness ==
    /\ pc = "panicked"
    /\ arg_i >= 1
    /\ len > arg_start
    /\ len < CAP
    /\ Len(RefOutput) > CAP

(* C16: as_str() of a returned buffer is exactly the bytes written: the    *)
(* formatted output, of the actual formatted length, without a NUL or any  *)
(* other byte of the rest of the buffer, also when CAP is larger.          *)
C16_AsStrIsWrittenPrefix ==
    pc = "done" =>
        /\ as_str(self) = RefOutput
        /\ Len(as_str(self)) = SumSeq([i \in 1..Len(arguments) |-> formatted_len(arguments[i])])
        /\ \A i \in 1..Len(as_str(self)) : as_str(self)[i] # 0
        /\ CAP > len => Len(as_str(self)) < CAP

C16_Witness ==
    /\ pc = "done"
    /\ wrappers = ValueArgs
    /\ declared = Some(CAP)
    /\ CAP > len
    /\ as_str(self) = <<86, 97, 108, 117, 101, 58, 32, 52, 50>>

(* the largest and the smallest element of a set of numbers *)
MaxOf(S) == CHOOSE x \in S : \A y \in S : y <= x
MinOf(S) == CHOOSE x \in S : \A y \in S : x <= y

(* the capacity of a format as C17 states it *)
StatedCapacity(f) ==
    IF IsSome(f.pad)
    THEN LET width == Unwrap(f.pad).width
             fill == len_utf8(Unwrap(f.pad).using)
             m == MinOf({f.capacity.chars, width})
         IN  MaxOf({width * fill,
                    fill * (width - m) + m * MAX_BYTES_PER_CHAR(f.ty),
                    f.capacity.bytes})
    ELSE f.capacity.bytes

(* C17: the capacity the macro infers for `value => format` is             *)
(* max(full_pad_capacity, min_pad_capacity, unpadded byte capacity) for a  *)
(* format with a pad and the unpadded byte capacity without; the values    *)
(* of the test capacity_for_padded_format follow.                          *)
C17_PaddedCapacityFormula ==
    (/\ pc = "done"
     /\ Len(wrappers) = 1
     /\ IsSome(wrappers[1].fmt)
     /\ declared = None)
    => /\ CAP = StatedCapacity(Unwrap(wrappers[1].fmt))
       /\ capacity(pad_right(fmt("u8"), 8, Space)) = 8
       /\ capacity(pad_right(fmt("u8"), 8, DoubleR)) = 24
       /\ capacity(pad_left(clip(8, <<>>), 8, Space)) = 32
       /\ capacity(pad_left(clip(4, <<>>), 8, Space)) = 20
       /\ capacity(pad_left(clip(4, <<>>), 8, SharpS)) = 24
       /\ capacity(pad_left(clip(4, <<Ellipsis>>), 8, Space)) = 23

C17_Witness ==
    /\ pc = "done"
    /\ Len(wrappers) = 1
    /\ declared = None
    /\ wrappers[1].ty = "u8"
    /\ IsSome(wrappers[1].fmt)
    /\ Unwrap(wrappers[1].fmt).pad = Some(Pad("Center", 4, DoubleR))
    /\ CAP = 12

(* C18: for a string with a clip and a pad that is truncated to n chars    *)
(* and the replacement r, the fill is computed from n + count_chars(r):    *)
(* width - n - count_chars(r) fill chars when that is positive and none    *)
(* otherwise, placed before and after the clipped content by alignment.    *)
C18_PadAfterClip ==
    (/\ ArgDone
     /\ DoneArg.inner.kind = "Str"
     /\ IsSome(DoneArg.inner.fmt)
     /\ IsSome(DoneArg.pad)
     /\ Unwrap(DoneArg.inner.fmt).clip_at < Len(DoneArg.inner.s))
    => LET f == Unwrap(DoneArg.inner.fmt)
           p == Unwrap(DoneArg.pad)
           chars == f.clip_at + Len(f.using)
           clipped == as_bytes(SubSeq(DoneArg.inner.s, 1, f.clip_at)) \o as_bytes(f.using)
           fill == IF p.width > chars THEN p.width - chars ELSE 0
           before == CASE p.align = "Left" -> 0
                       [] p.align = "Right" -> fill
                       [] OTHER -> fill \div 2
       IN  /\ ArgOut = as_bytes([i \in 1..before |-> p.using]) \o clipped
                       \o as_bytes([i \in 1..(fill - before) |-> p.using])
           /\ NumScalars(ArgOut) = chars + fill

C18_Witness ==
    /\ ArgDone
    /\ DoneArg.inner.kind = "Str"
    /\ IsSome(DoneArg.inner.fmt)
    /\ Unwrap(DoneArg.inner.fmt) = StrFormat(1, <<Ellipsis>>)
    /\ Len(DoneArg.inner.s) = 2
    /\ DoneArg.pad = Some(Pad("Center", 4, DoubleR))
    /\ NumScalars(ArgOut) = 4
    /\ Len(ArgOut) = Len(as_bytes(<<DoneArg.inner.s[1]>>)) + 3 + 2 * 3

(* C19: MAX_LENGTH of an integer type is the decimal length of its MAX     *)
(* (unsigned) or MIN (signed), that of char is 4 bytes / 1 char; the       *)
(* content written for any value of the type is at most that long, and     *)
(* some value of the type is exactly that long.                            *)
C19_MaxLengthIsAttainedBound ==
    (/\ ContentDone
     /\ wrappers[arg_i + 1].ty \in IntTypes \cup {"char"}
     /\ IsSome(wrappers[arg_i + 1].fmt))
    => LET ty == wrappers[arg_i + 1].ty
           extreme == IF ty \in UnsignedTypes THEN IntMax(ty) ELSE IntMin(ty)
       IN  /\ Unwrap(wrappers[arg_i + 1].fmt).capacity = MAX_LENGTH(ty)
           /\ MAX_LENGTH(ty) = IF ty = "char" THEN StrLength(4, 1)
                               ELSE both(Len(DecimalChars(extreme)))
           /\ Len(Content) <= MAX_LENGTH(ty).bytes
           /\ NumScalars(Content) <= MAX_LENGTH(ty).chars
           /\ \E v \in Values(ty) :
                 inner_formatted_len(into_argument(ArgumentWrapper_new(ty, v)).inner)
                     = MAX_LENGTH(ty)
           /\ MAX_LENGTH("u8") = both(3) /\ MAX_LENGTH("i8") = both(4)
           /\ MAX_LENGTH("u16") = both(5) /\ MAX_LENGTH("i16") = both(6)

C19_Witness ==
    /\ ContentDone
    /\ wrappers[arg_i + 1].ty = "i16"
    /\ IsSome(wrappers[arg_i + 1].fmt)
    /\ arg.inner.value = -32768
    /\ Len(Content) = 6

(* C20: for a string s of the program and every n >= 0, ClippedStr::new(s, *)
(* n) holds the bytes of the first min(n, chars of s) chars of s, and is   *)
(* Clipped exactly when s has more than n chars, Full otherwise;           *)
(* count_chars(s) is the number of chars of s.  What write_str appends     *)
(* first is that prefix.                                                   *)
C20_Utf8Scanner ==
    (/\ pc = "clip_with" \/ ContentDone
     /\ arg.inner.kind = "Str"
     /\ IsSome(arg.inner.fmt))
    => LET s == arg.inner.s
       IN  /\ \A n \in 0..(MaxClip + 1) :
                 LET clipped == ClippedStr_new(s, n)
                     k == IF n < Len(s) THEN n ELSE Len(s)
                 IN  /\ clipped.bytes = as_bytes(SubSeq(s, 1, k))
                     /\ clipped.tag = IF Len(s) > n THEN "Clipped" ELSE "Full"
           /\ count_chars(s) = Len(s)
           /\ count_chars(s) = NumScalars(as_bytes(s))
           /\ pc = "clip_with" =>
                 SubSeq(buffer, ContentStart + 1, len)
                     = as_bytes(SubSeq(s, 1, Unwrap(arg.inner.fmt).clip_at))

C20_Witness ==
    /\ pc = "clip_with"
    /\ arg.inner.s = <<Bomb, LatinI>>
    /\ Unwrap(arg.inner.fmt).clip_at = 1
    /\ SubSeq(buffer, ContentStart + 1, len) = <<240, 159, 146, 163>>

ClipEvaluated ==
    /\ IsSome(expr)
    /\ IsSome(Unwrap(expr).clip)
    /\ pc \notin {"ascii_new", "clip"}
    /\ Unwrap(expr).ty = "Ascii" => \A i \in 1..Len(Unwrap(expr).s) : Unwrap(expr).s[i] < 128

(* C22: clip(clip_at, using) and clip_ascii(clip_at, using) panic when     *)
(* clip_at = 0; clip_ascii also panics when `using` has a non-ASCII char;  *)
(* for clip_at >= 1 (and an ASCII `using` for clip_ascii) they return the  *)
(* format with that clip_at and `using`, unless its capacity overflows     *)
(* usize in a build with overflow checks.                                  *)
C22_ClipAsserts ==
    ClipEvaluated =>
        LET e == Unwrap(expr)
            c == Unwrap(e.clip)
            bad_using == e.ty = "Ascii" /\ \E i \in 1..Len(c.using) : c.using[i] >= 128
            first_bad == MinOf({i \in 1..Len(c.using) : c.using[i] >= 128})
            fits == (IF e.ty = "Ascii" THEN clip_ascii(c.clip_at, c.using)
                     ELSE clip(c.clip_at, c.using)).capacity.bytes <= USIZE_MAX
        IN  /\ c.clip_at = 0 =>
                  /\ pc = "compile_error"
                  /\ panic_message = Some(ClipPanic)
                  /\ ~IsSome(wrappers[1].fmt)
            /\ (c.clip_at >= 1 /\ bad_using) =>
                  /\ pc = "compile_error"
                  /\ panic_message = Some([string |-> as_bytes(c.using),
                                           position |-> first_bad - 1])
                  /\ ~IsSome(wrappers[1].fmt)
            /\ (c.clip_at >= 1 /\ ~bad_using /\ (fits \/ ~e.overflow_checks)) =>
                  /\ IsSome(wrappers[1].fmt)
                  /\ Unwrap(wrappers[1].fmt).ty = e.ty
                  /\ Unwrap(wrappers[1].fmt).details = StrFormat(c.clip_at, c.using)
                  /\ fits => [Unwrap(wrappers[1].fmt) EXCEPT !.pad = None]
                                = IF e.ty = "Ascii" THEN clip_ascii(c.clip_at, c.using)
                                  ELSE clip(c.clip_at, c.using)

C22_Witness ==
    /\ ClipEvaluated
    /\ Unwrap(expr).ty = "str"
    /\ Unwrap(Unwrap(expr).clip).clip_at = 0
    /\ pc = "compile_error"
    /\ panic_message = Some(ClipPanic)

(* C23: Ascii::new(s) panics exactly when s has a non-ASCII byte; the      *)
(* message holds s clipped to CLIP_LEN = 32 chars (with U+2026 after a     *)
(* clipped one) and the byte position of the first non-ASCII byte, from 0; *)
(* for an all-ASCII s the value wrapped is s.  The string of the test      *)
(* ascii_panic gives position 2.                                           *)
C23_AsciiNewChecksBytes ==
    (IsSome(expr) /\ Unwrap(expr).ty = "Ascii" /\ pc # "ascii_new") =>
        LET s == Unwrap(expr).s
            bad == {i \in 1..Len(as_bytes(s)) : as_bytes(s)[i] >= 128}
            shown == IF Len(s) > CLIP_LEN
                     THEN as_bytes(SubSeq(s, 1, CLIP_LEN)) \o <<226, 128, 166>>
                     ELSE as_bytes(s)
        IN  /\ bad # {} <=> (pc = "compile_error" /\ wrappers = <<>>)
            /\ bad # {} =>
                  panic_message = Some([string |-> shown, position |-> MinOf(bad) - 1])
            /\ bad = {} =>
                  /\ Len(wrappers) >= 1
                  /\ wrappers[1].ty = "Ascii"
                  /\ wrappers[1].str = s
            /\ s = TestNonAscii =>
                  panic_message = Some([string |-> <<116, 101, 195, 159, 226, 128, 166>>,
                                        position |-> 2])

C23_Witness ==
    /\ IsSome(expr)
    /\ Unwrap(expr).s = LongAscii \o <<SharpS, LatinI, Bomb>>
    /\ pc = "compile_error"
    /\ Unwrap(panic_message).position = CLIP_LEN + 1
    /\ Len(Unwrap(panic_message).string) = CLIP_LEN + 3

(* C24: clip_ascii(n, r) has the unpadded capacity n + len(r) bytes, one   *)
(* byte per char, where clip(n, r) has 4 * n + len(r); the bytes appended  *)
(* for an Ascii value never exceed the capacity of its format, with or     *)
(* without a pad.  The capacities of the test ascii_strings follow.        *)
C24_AsciiCapacity ==
    (ArgDone /\ DoneWrapper.ty = "Ascii" /\ IsSome(DoneWrapper.fmt) /\ CapacityInRange) =>
        LET f == Unwrap(DoneWrapper.fmt)
            n == f.details.clip_at
            r == f.details.using
        IN  /\ f.capacity = both(n + str_len(r))
            /\ MAX_BYTES_PER_CHAR("Ascii") = 1
            /\ capacity(clip_ascii(n, r)) = n + str_len(r)
            /\ capacity(clip(n, r)) = 4 * n + str_len(r)
            /\ Len(ArgOut) <= capacity(f)
            /\ ~IsSome(f.pad) => Len(ArgOut) <= n + str_len(r)
            /\ 7 + capacity(clip_ascii(16, <<46, 46>>)) = 25
            /\ 7 + capacity(clip_ascii(2, <<126>>)) = 10

C24_Witness ==
    /\ ArgDone
    /\ DoneWrapper.ty = "Ascii"
    /\ IsSome(DoneWrapper.fmt)
    /\ IsSome(Unwrap(DoneWrapper.fmt).pad)
    /\ Unwrap(DoneWrapper.fmt).details.using = <<Dash>>
    /\ Len(DoneWrapper.str) > Unwrap(DoneWrapper.fmt).details.clip_at
    /\ Unwrap(Unwrap(DoneWrapper.fmt).pad).width > 2
    /\ Len(ArgOut) = capacity(Unwrap(DoneWrapper.fmt))
    /\ Len(ArgOut) < capacity(with_pad(clip(1, <<Dash>>), "Left", 0, Space))

(* the assertions of the constructors of the call pass *)
ExprAssertsPass ==
    /\ IsSome(expr)
    /\ Unwrap(expr).ty = "Ascii" => is_ascii(Unwrap(expr).s)
    /\ IsSome(Unwrap(expr).clip) =>
          /\ Unwrap(Unwrap(expr).clip).clip_at >= 1
          /\ Unwrap(expr).ty = "Ascii" => is_ascii(Unwrap(Unwrap(expr).clip).using)

(* C25 as stated: when the total capacity, the sum or a product inside a   *)
(* capacity, exceeds usize, the call fails with an error before format     *)
(* runs, and is never given a wrapped, smaller capacity.                   *)
C25_OverflowIsFatal ==
    (ExprAssertsPass /\ ExactTotal(Unwrap(expr)) > USIZE_MAX) =>
        /\ pc \in {"ascii_new", "clip", "const_capacity", "compile_error"}
        /\ pc = "compile_error" => panic_message = Some(OverflowError)

(* what holds of C25: the sum over the arguments is always checked; the    *)
(* sums and products inside clip, clip_ascii and Fmt::capacity are checked *)
(* in a build with overflow checks only, and a capacity in range is the    *)
(* exact one in either build                                               *)
C25_FatalWithOverflowChecks ==
    ExprAssertsPass =>
        /\ (ExactTotal(Unwrap(expr)) > USIZE_MAX /\ Unwrap(expr).overflow_checks) =>
              /\ pc \in {"ascii_new", "clip", "const_capacity", "compile_error"}
              /\ pc = "compile_error" => panic_message = Some(OverflowError)
        /\ ExactTotal(Unwrap(expr)) <= USIZE_MAX =>
              /\ pc # "compile_error"
              /\ pc \notin {"ascii_new", "clip", "const_capacity"} =>
                    CAP = ExactTotal(Unwrap(expr))
        /\ pc \notin {"ascii_new", "clip", "const_capacity", "compile_error"} =>
              CAP = total_capacity(wrappers) % (USIZE_MAX + 1)

(* a wrapped capacity: clip(USIZE_MAX / 4 + 2, "") in a build without      *)
(* overflow checks has capacity 4, and format runs with it                 *)
C25_Wrapped ==
    /\ ExprAssertsPass
    /\ ~Unwrap(expr).overflow_checks
    /\ Unwrap(Unwrap(expr).clip).clip_at = Quarter + 1
    /\ pc = "done"
    /\ CAP = 4

(* the string of the test formatted_len_for_clipped_strings *)
TestStr == <<116, 101, SharpS, 116>>

(* ArgumentInner::formatted_len of TestStr with clip(clip_at, using) *)
TestLen(clip_at, using) == inner_formatted_len(Str(TestStr, Some(StrFormat(clip_at, using))))

(* C26: for every string, clip_at and replacement the estimated StrLength  *)
(* is the byte length and the char count of the bytes write_str appends;   *)
(* a string of more than clip_at chars is written as its first clip_at     *)
(* chars and the replacement, estimated as bytes = prefix bytes +          *)
(* len(using) and chars = clip_at + count_chars(using); any other string   *)
(* is written whole and estimated by its own length.  The lengths the test *)
(* formatted_len_for_clipped_strings asserts follow.                       *)
C26_EstimateMatchesWriter ==
    (ContentDone /\ arg.inner.kind = "Str") =>
        LET s == arg.inner.s
            est == inner_formatted_len(arg.inner)
            truncated == IsSome(arg.inner.fmt) /\ Len(s) > Unwrap(arg.inner.fmt).clip_at
        IN  /\ est = StrLength(Len(Content), NumScalars(Content))
            /\ truncated =>
                  LET clip_at == Unwrap(arg.inner.fmt).clip_at
                      using == Unwrap(arg.inner.fmt).using
                      prefix == as_bytes(SubSeq(s, 1, clip_at))
                  IN  /\ Content = prefix \o as_bytes(using)
                      /\ est = StrLength(Len(prefix) + str_len(using),
                                         clip_at + count_chars(using))
                      /\ count_chars(using) = Len(using)
            /\ ~truncated =>
                  /\ Content = as_bytes(s)
                  /\ est = StrLength(str_len(s), Len(s))
            /\ TestLen(2, <<>>) = StrLength(2, 2)
            /\ TestLen(2, <<46, 46, 46>>) = StrLength(5, 5)
            /\ TestLen(2, <<Ellipsis>>) = StrLength(5, 3)
            /\ TestLen(3, <<>>) = StrLength(4, 3)
            /\ TestLen(3, <<Ellipsis>>) = StrLength(7, 4)
            /\ TestLen(3, <<Dash>>) = StrLength(5, 4)
            /\ \A n \in {4, 5, 16} : TestLen(n, <<Ellipsis>>) = StrLength(5, 4)

C26_Witness ==
    /\ ContentDone
    /\ arg.inner.kind = "Str"
    /\ IsSome(arg.inner.fmt)
    /\ arg.inner.s = <<SharpS, Bomb>>
    /\ Unwrap(arg.inner.fmt).clip_at = 1
    /\ Unwrap(arg.inner.fmt).using = <<Ellipsis>>
    /\ Content = <<195, 159, 226, 128, 166>>
    /\ inner_formatted_len(arg.inner) = StrLength(5, 2)

(* the fill char format_arg has just written with write_char *)
FillDone == pc \in {"pad_before", "pad_after"} /\ count >= 1 /\ IsSome(arg.pad)

FillBytes == SubSeq(buffer, len - len_utf8(Unwrap(arg.pad).using) + 1, len)

(* the bytes are the UTF-8 encoding of the one scalar c, as the scanners   *)
(* of utils.rs read them                                                   *)
EncodesScalar(bytes, c) ==
    /\ Len(bytes) = len_utf8(c)
    /\ Len(bytes) \in 1..4
    /\ bytes = encode_utf8(c)
    /\ CASE Len(bytes) = 1 -> bytes[1] < 128
         [] Len(bytes) = 2 -> bytes[1] \div 32 = 6
         [] Len(bytes) = 3 -> bytes[1] \div 16 = 14
         [] OTHER -> bytes[1] \div 8 = 30
    /\ \A i \in 2..Len(bytes) : bytes[i] \div 64 = 2
    /\ count_scan(bytes, 0, 0) = 1
    /\ clip_scan(bytes, 0, 1) = Len(bytes)
    /\ from_utf8_unchecked(bytes) = <<c>>

(* C27: write_char(c) appends len_utf8(c) bytes, 1 to 4, which are the     *)
(* UTF-8 encoding of c: the leading byte is tagged 0xxxxxxx, 110xxxxx,     *)
(* 1110xxxx or 11110xxx, the others 10xxxxxx, and count_chars and          *)
(* ClippedStr::new read them as one scalar of that length; for a char      *)
(* argument and for every fill char.  The five chars of the test           *)
(* using_chars, of 1, 1, 2, 3 and 4 bytes, make the 11 bytes it expects.   *)
C27_WriteCharIsUtf8 ==
    /\ (ContentDone /\ arg.inner.kind = "Char") =>
          /\ EncodesScalar(Content, arg.inner.c)
          /\ len = ContentStart + len_utf8(arg.inner.c)
    /\ FillDone => EncodesScalar(FillBytes, Unwrap(arg.pad).using)
    /\ pc = "done" =>
          Concat([i \in 1..5 |-> char_bytes(<<72, LatinI, SharpS, DoubleR, Bomb>>[i])])
             = <<72, 105, 195, 159, 226, 132, 157, 240, 159, 146, 163>>

C27_Witness ==
    /\ ContentDone
    /\ arg.inner.kind = "Char"
    /\ arg.inner.c = DoubleR
    /\ IsSome(arg.pad)
    /\ Unwrap(arg.pad).using = Bomb
    /\ pad_before >= 1
    /\ Content = <<226, 132, 157>>
    /\ SubSeq(buffer, ContentStart - 3, ContentStart) = <<240, 159, 146, 163>>

(* the states of a call: planning (the constant expressions before         *)
(* format), Empty, Writing, Finalized                                      *)
Terminal == {"done", "panicked", "compile_error"}

Planning == {"ascii_new", "clip", "const_capacity", "assert_capacity"}

Phase(at, i) ==
    IF at \in Planning THEN 0
    ELSE IF at = "format" /\ i = 0 THEN 1
    ELSE IF at \in Terminal THEN 3
    ELSE 2

(* one step of the run keeps to the order of the state machine *)
LinearStep ==
    /\ pc \notin Terminal
    /\ Phase(pc', arg_i') >= Phase(pc, arg_i)
    /\ \/ arg_i' = arg_i
       \/ arg_i' = arg_i + 1 /\ pc = "pad_after" /\ pc' = "format"
    /\ arg_i' <= Len(arguments')
    /\ (pc' = "pad_before" /\ pc # "pad_before") =>
          /\ pc = "format"
          /\ arg_i < Len(arguments)
    /\ (pc' = "format" /\ pc \notin Planning) => arg_i' = arg_i + 1
    /\ pc' = "done" =>
          /\ pc = "format"
          /\ arg_i = Len(arguments)

(* the variant of the run, compared in lexicographic order: the constant   *)
(* expressions still to evaluate, the arguments still to format, the steps *)
(* of format_arg still to take, the fill chars still to write              *)
PlanStage(at) ==
    CASE at = "ascii_new" -> 3
      [] at = "clip" -> 2
      [] at \in {"const_capacity", "assert_capacity"} -> 1
      [] OTHER -> 0

ArgStage(at) ==
    CASE at = "format" -> 4
      [] at = "pad_before" -> 3
      [] at \in {"clip_with", "digits"} -> 2
      [] at = "pad_after" -> 1
      [] OTHER -> 0

FillsLeft(at, before, after, written) ==
    CASE at = "pad_before" -> before - written
      [] at = "pad_after" /\ IsSome(after) -> Unwrap(after)[1] - written
      [] OTHER -> 0

Rank(at, i, n, before, after, written) ==
    <<PlanStage(at), IF at \in Planning THEN 0 ELSE n - i, ArgStage(at),
      FillsLeft(at, before, after, written)>>

LexLess(a, b) ==
    \E k \in 1..4 : a[k] < b[k] /\ \A j \in 1..(k - 1) : a[j] = b[j]

(* one step takes the variant down, and the variant stays in the naturals *)
VariantStep ==
    /\ LexLess(Rank(pc', arg_i', Len(arguments'), pad_before', pad_after', count'),
               Rank(pc, arg_i, Len(arguments), pad_before, pad_after, count))
    /\ \A k \in 1..4 :
          Rank(pc', arg_i', Len(arguments'), pad_before', pad_after', count')[k] \in Nat

(* the guard of some action holds: of a constant expression, of NextArg or *)
(* Return, of a fill, of the write of the content by its kind, of EndArg,  *)
(* or of Panic                                                             *)
CanStep ==
    \/ pc \in Planning
    \/ pc = "format"
    \/ pc = "pad_before" /\ count < pad_before /\ ~Pending.panicked
    \/ /\ AtInner
       /\ arg.inner.kind = "Str"
       /\ IF IsSome(arg.inner.fmt)
          THEN ClippedStr_new(arg.inner.s, Unwrap(arg.inner.fmt).clip_at).tag
                  \in {"Full", "Clipped"}
          ELSE TRUE
       /\ ~Pending.panicked
    \/ AtInner /\ arg.inner.kind \in {"Char", "Int", "UnsignedInt"} /\ ~Pending.panicked
    \/ pc \in {"clip_with", "digits"} /\ ~Pending.panicked
    \/ /\ pc = "pad_after"
       /\ (IsSome(pad_after) /\ count < Unwrap(pad_after)[1]) => ~Pending.panicked
    \/ pc \in {"pad_before", "clip_with", "digits", "pad_after"} /\ Pending.panicked

(* C28: a call of format starts with len = 0 and a buffer of CAP zero      *)
(* bytes, takes the arguments 0, 1, ..., N - 1 in order, each once, never  *)
(* leaves a final state, and returns only when arg_i = N.  Every run ends: *)
(* each step, a fill char of a fill loop included, takes a variant in the  *)
(* naturals down, and in every state that is not final a step can be       *)
(* taken, so the run reaches done, panicked or compile_error.              *)
C28_LinearRun ==
    /\ []((pc = "format" /\ arg_i = 0) =>
             /\ len = 0
             /\ buffer = [i \in 1..CAP |-> 0])
    /\ [](pc = "done" => arg_i = Len(arguments))
    /\ [](pc \notin Terminal => CanStep)
    /\ [][LinearStep /\ VariantStep]_vars

C28_Witness ==
    /\ pc = "done"
    /\ arg_i = 2
    /\ Len(arguments) = 2
    /\ IsSome(arguments[1].pad)
    /\ arguments[2].inner.kind = "UnsignedInt"
    /\ IsSome(pad_after)
    /\ count >= 1
    /\ Written = <<105, 226, 128, 166, 195, 159, 52, 50, 226, 132, 157>>

(* the bytes of buf at the indices n, n + 1, ... of the code are zero *)
ZeroFrom(buf, n) == SubSeq(buf, n + 1, Len(buf)) = [i \in 1..(Len(buf) - n) |-> 0]

(* C29: a step of the writer never decreases len, leaves the bytes before  *)
(* the old len as they were, leaves the bytes from the new len on zero,    *)
(* and does not change the size of the buffer: it writes the indices from  *)
(* the old len up to the new len only.                                     *)
C29_AppendFrame ==
    [][/\ len' >= len
       /\ \A i \in 1..len : buffer'[i] = buffer[i]
       /\ ZeroFrom(buffer', len')
       /\ len' <= Len(buffer')
       /\ pc \notin Planning => Len(buffer') = Len(buffer)]_vars

C29_Witness ==
    /\ pc = "pad_after"
    /\ arg_i = 1
    /\ arg.inner.kind = "UnsignedInt"
    /\ count >= 1
    /\ arg_start >= 1
    /\ len < CAP
    /\ buffer[len] # 0
    /\ buffer[len + 1] = 0

(* C30: for the minimum of a signed type of w bits, whose magnitude        *)
(* 2^(w-1) is above the maximum of the type, the magnitude is taken as an  *)
(* unsigned value: the estimated length is 1 + digits(2^(w-1)), which is   *)
(* MAX_LENGTH of the type, and the bytes written are '-' and the decimal   *)
(* digits of 2^(w-1).                                                      *)
C30_SignedMin ==
    (/\ ContentDone
     /\ arg.inner.kind = "Int"
     /\ wrappers[arg_i + 1].ty \in SignedTypes
     /\ arg.inner.value = IntMin(wrappers[arg_i + 1].ty)) =>
        LET ty == wrappers[arg_i + 1].ty
            magnitude == Pow2(Bits(ty) - 1)
            digits == Decimal(magnitude)
        IN  /\ magnitude > IntMax(ty)
            /\ unsigned_abs(arg.inner.value) = magnitude
            /\ inner_formatted_len(arg.inner) = both(1 + Len(digits))
            /\ MAX_LENGTH(ty) = both(1 + Len(digits))
            /\ Content = <<Dash>> \o [i \in 1..Len(digits) |-> Zero + digits[i]]
            /\ len = ContentStart + 1 + Len(digits)

C30_Witness ==
    /\ ContentDone
    /\ arg.inner.kind = "Int"
    /\ wrappers[arg_i + 1].ty = "i16"
    /\ arg.inner.value = -32768
    /\ Content = <<45, 51, 50, 55, 54, 56>>

====
